---------------------------- MODULE Spec2Model ----------------------------
(***************************************************************************)
(* Model of the uniq orchestration layer:                                  *)
(*   - the action bus and reducer (App::run / App::handle_action),         *)
(*   - the phase components' action handlers,                              *)
(*   - the background tasks spawned by the reducer (fan-out jobs),         *)
(*   - the sidecar supervisor (SidecarManager start / shutdown / Drop).    *)
(* Specifications:                                                         *)
(*   Spec         the application: event handler, bus, reducer, tasks      *)
(*   UiSpec       a run at the keyboard with ticks, quit and exit          *)
(*   NavSpec      runs with navigation between the phases                  *)
(*   DialogSpec   runs at the merge dialog                                 *)
(*   ReducerSpec  the reducer alone, the collaborator unavailable          *)
(*   SupSpec      the supervisor driven by an arbitrary caller, with a     *)
(*                fake collaborator process and a clock                    *)
(*   LineageSpec  the lineage trees under attach and merge                 *)
(*   MergeOpenSpec  a run up to VariantGeneration, then the merge dialog   *)
(*   CardsSpec    the reducer during an extraction of up to MaxCards cards *)
(*   TickSpec     a run with the help overlay and interval ticks           *)
(*   PickSpec     the reducer at the merge dialog with its list filled     *)
(* Abstractions: text fields are modelled by their length with the cursor  *)
(* at the end; path suggestions, cursor movement, paste and word deletion  *)
(* (text-input mechanics), rendering, and the display-only fields          *)
(* current_paper / active_papers / current_query are left out.  Status     *)
(* messages are modelled by a token naming the format string.              *)
(***************************************************************************)
EXTENDS Integers, Sequences, FiniteSets, TLC

\* ------------------------------------------------------------------ bounds
\* Number of keys the user presses in one run of the pipeline.
MaxEvents == 4
\* Number of interval ticks in one run.
MaxTicks == 2
\* Number of collaborator processes a supervisor spawns.
MaxStarts == 2
\* A producer (event handler, task) sends while the bus holds fewer actions
\* than this; the actions a dispatch sends itself are not held back.
MaxQueue == 2
\* Papers the collaborator returns over one run.
MaxPapers == 2
\* Largest relevance score of an extracted technique.
MaxScore == 1
\* Longest text of an input field.
MaxText == 1
\* Actions a producer puts on the bus of the reducer taken alone.
MaxFeeds == 3
\* Leaves attached to the lineage forest.
MaxLeaves == 3
\* Papers of the largest extraction batch fed to the technique cards.
MaxCards == 11
\* Variants held by the variant builder when the merge dialog is used.
MaxVariants == 3
\* Keys the user presses at the merge dialog.
MaxPicks == 4

\* ----------------------------------------------------------------- helpers
Min(a, b) == IF a < b THEN a ELSE b

Range(s) == {s[i] : i \in 1..Len(s)}

RECURSIVE SeqFilter(_, _)
SeqFilter(s, keep) ==
    IF s = <<>> THEN <<>>
    ELSE IF Head(s) \in keep THEN <<Head(s)>> \o SeqFilter(Tail(s), keep)
         ELSE SeqFilter(Tail(s), keep)

\* ------------------------------------------------------------------ Phase
Phases == <<"ProjectIntake", "ResearchDiscovery", "TechniqueSelection",
            "VariantGeneration", "Benchmarking">>

PhaseSet == Range(Phases)

Phase_index(p) == CHOOSE i \in 1..Len(Phases) : Phases[i] = p

\* Phase::next with a wraparound from the last phase to the first.
Phase_next_wrap(p) ==
    CASE p = "ProjectIntake" -> "ResearchDiscovery"
      [] p = "ResearchDiscovery" -> "TechniqueSelection"
      [] p = "TechniqueSelection" -> "VariantGeneration"
      [] p = "VariantGeneration" -> "Benchmarking"
      [] OTHER -> "ProjectIntake"

\* Phase::next / Phase::prev: "None" when there is none.
Phase_next(p) ==
    CASE p = "ProjectIntake" -> "ResearchDiscovery"
      [] p = "ResearchDiscovery" -> "TechniqueSelection"
      [] p = "TechniqueSelection" -> "VariantGeneration"
      [] p = "VariantGeneration" -> "Benchmarking"
      [] OTHER -> "None"

Phase_prev(p) ==
    CASE p = "ResearchDiscovery" -> "ProjectIntake"
      [] p = "TechniqueSelection" -> "ResearchDiscovery"
      [] p = "VariantGeneration" -> "TechniqueSelection"
      [] p = "Benchmarking" -> "VariantGeneration"
      [] OTHER -> "None"

\* ------------------------------------------------------------- BlendRatio
BlendRatios == <<"Zero", "Quarter", "Half", "ThreeQuarter", "Full">>

BlendRatio_as_percent(b) ==
    CASE b = "Zero" -> 0
      [] b = "Quarter" -> 25
      [] b = "Half" -> 50
      [] b = "ThreeQuarter" -> 75
      [] b = "Full" -> 100

\* A next() that wraps from Full to Zero.
BlendRatio_next_wrap(b) ==
    CASE b = "Zero" -> "Quarter"
      [] b = "Quarter" -> "Half"
      [] b = "Half" -> "ThreeQuarter"
      [] b = "ThreeQuarter" -> "Full"
      [] b = "Full" -> "Zero"

BlendRatio_next(b) ==
    CASE b = "Zero" -> "Quarter"
      [] b = "Quarter" -> "Half"
      [] b = "Half" -> "ThreeQuarter"
      [] b = "ThreeQuarter" -> "Full"
      [] b = "Full" -> "Full"

BlendRatio_prev(b) ==
    CASE b = "Zero" -> "Zero"
      [] b = "Quarter" -> "Zero"
      [] b = "Half" -> "Quarter"
      [] b = "ThreeQuarter" -> "Half"
      [] b = "Full" -> "ThreeQuarter"

\* ----------------------------------------------------------------- Action
\* An Action value: its variant name and its payload (0 when it has none).
Act(type, arg) == [type |-> type, arg |-> arg]

NoAction == Act("None", 0)

\* ------------------------------------------------- component constructors
\* ProjectIntakeComponent::new, then App::set_initial_project /
\* set_initial_description: path_input is a length, description_input a
\* sequence of "c" (a character) and "n" (a newline).
ProjectIntakeComponent_new(path, description) ==
    [path_input |-> path, description_input |-> description, focused |-> "Path",
     profile |-> FALSE, analyzing |-> FALSE, error |-> FALSE]

ResearchExplorerComponent_new ==
    [papers |-> <<>>, selected |-> 0, searching |-> FALSE, error |-> FALSE,
     detail_expanded |-> FALSE, detail_scroll |-> 0, spinner_tick |-> 0,
     query_progress |-> <<0, 0>>]

TechniqueCardsComponent_new ==
    [techniques |-> <<>>, selected |-> 0, extracting |-> FALSE,
     extraction_attempted |-> FALSE, progress |-> <<0, 0>>, errors |-> <<>>,
     spinner_tick |-> 0]

VariantBuilderComponent_new ==
    [variants |-> <<>>, selected |-> 0, generating |-> FALSE]

BenchmarkDashboardComponent_new ==
    [variants |-> <<>>, selected |-> 0, benchmarking |-> FALSE]

\* A dialog whose second index starts one further on.
MergeDialogComponent_new_far ==
    [visible |-> FALSE, available_variants |-> <<>>, variant_a_idx |-> 0,
     variant_b_idx |-> 2, blend_a |-> "Half", blend_b |-> "Half",
     focused |-> "VariantA", merging |-> FALSE]

MergeDialogComponent_new ==
    [visible |-> FALSE, available_variants |-> <<>>, variant_a_idx |-> 0,
     variant_b_idx |-> 1, blend_a |-> "Half", blend_b |-> "Half",
     focused |-> "VariantA", merging |-> FALSE]

StatusBarComponent_new ==
    [message |-> "Welcome", current_phase |-> "ProjectIntake"]

HelpComponent_new == [visible |-> FALSE]

\* A handler's return value: the component after the action and the chained
\* action it returns (NoAction for None).
Ret(st, result) == [st |-> st, result |-> result]

\* ----------------------------------------------- ProjectIntakeComponent
ProjectIntake_wants_input(pi) == ~pi.profile /\ ~pi.analyzing

ProjectIntake_switch_field(pi) ==
    [pi EXCEPT !.focused = IF pi.focused = "Path" THEN "Description" ELSE "Path"]

ProjectIntake_insert_char(pi, c) ==
    IF pi.focused = "Path"
    THEN [pi EXCEPT !.path_input = Min(pi.path_input + 1, MaxText)]
    ELSE [pi EXCEPT !.description_input =
                        IF Len(pi.description_input) < MaxText
                        THEN Append(pi.description_input, c)
                        ELSE pi.description_input]

ProjectIntake_delete_char(pi) ==
    IF pi.focused = "Path"
    THEN [pi EXCEPT !.path_input = IF pi.path_input > 0 THEN pi.path_input - 1 ELSE 0]
    ELSE [pi EXCEPT !.description_input =
                        IF pi.description_input = <<>> THEN <<>>
                        ELSE SubSeq(pi.description_input, 1,
                                    Len(pi.description_input) - 1)]

ProjectIntake_try_submit(pi) ==
    IF pi.path_input > 0 /\ pi.description_input # <<>>
    THEN Ret([pi EXCEPT !.analyzing = TRUE, !.error = FALSE],
             Act("SubmitProject", pi.description_input))
    ELSE IF pi.path_input = 0
         THEN Ret(pi, Act("SetStatus", "EnterPath"))
         ELSE Ret(pi, Act("SetStatus", "EnterDescription"))

ProjectIntake_handle_action(pi, a) ==
    CASE a.type = "CharInput" -> Ret(ProjectIntake_insert_char(pi, "c"), NoAction)
      [] a.type = "BackspaceInput" -> Ret(ProjectIntake_delete_char(pi), NoAction)
      [] a.type = "SwitchInputField" -> Ret(ProjectIntake_switch_field(pi), NoAction)
      [] a.type \in {"ScrollDown", "SelectNext"} ->
            IF pi.focused = "Path"
            THEN Ret(ProjectIntake_switch_field(pi), NoAction)
            ELSE Ret(pi, NoAction)
      [] a.type \in {"ScrollUp", "SelectPrev"} ->
            IF pi.focused = "Description" /\ "n" \notin Range(pi.description_input)
            THEN Ret(ProjectIntake_switch_field(pi), NoAction)
            ELSE Ret(pi, NoAction)
      [] a.type = "NewlineInput" ->
            IF pi.focused = "Path"
            THEN (IF pi.path_input > 0
                  THEN Ret(ProjectIntake_switch_field(pi), NoAction)
                  ELSE Ret(pi, NoAction))
            ELSE Ret(ProjectIntake_insert_char(pi, "n"), NoAction)
      [] a.type \in {"SubmitForm", "Confirm"} -> ProjectIntake_try_submit(pi)
      [] a.type = "ProjectAnalyzed" ->
            Ret([pi EXCEPT !.analyzing = FALSE, !.profile = TRUE], NoAction)
      [] a.type = "ProjectAnalysisFailed" ->
            Ret([pi EXCEPT !.analyzing = FALSE, !.error = TRUE], NoAction)
      [] OTHER -> Ret(pi, NoAction)

\* --------------------------------------------- ResearchExplorerComponent
ResearchExplorer_handle_action(re, a) ==
    CASE a.type = "Tick" ->
            Ret(IF re.searching THEN [re EXCEPT !.spinner_tick = @ + 1] ELSE re,
                NoAction)
      [] a.type = "Confirm" ->
            Ret(IF re.detail_expanded
                THEN [re EXCEPT !.detail_expanded = FALSE, !.detail_scroll = 0]
                ELSE IF re.papers # <<>>
                     THEN [re EXCEPT !.detail_expanded = TRUE, !.detail_scroll = 0]
                     ELSE re,
                NoAction)
      [] a.type = "CloseMergeDialog" ->
            Ret(IF re.detail_expanded
                THEN [re EXCEPT !.detail_expanded = FALSE, !.detail_scroll = 0]
                ELSE re,
                NoAction)
      [] a.type \in {"ScrollUp", "SelectPrev"} ->
            Ret(IF re.detail_expanded
                THEN [re EXCEPT !.detail_scroll = IF @ > 0 THEN @ - 1 ELSE 0]
                ELSE IF re.selected > 0 THEN [re EXCEPT !.selected = @ - 1] ELSE re,
                NoAction)
      [] a.type \in {"ScrollDown", "SelectNext"} ->
            Ret(IF re.detail_expanded
                THEN [re EXCEPT !.detail_scroll = @ + 1]
                ELSE IF re.selected + 1 < Len(re.papers)
                     THEN [re EXCEPT !.selected = @ + 1] ELSE re,
                NoAction)
      [] a.type = "SearchQueryStarted" ->
            Ret([re EXCEPT !.query_progress = a.arg], NoAction)
      [] a.type = "PapersFound" ->
            Ret([re EXCEPT !.papers = @ \o a.arg], NoAction)
      [] a.type = "ResearchComplete" ->
            Ret([re EXCEPT !.searching = FALSE], Act("SetStatus", "FoundPapers"))
      [] a.type = "ResearchFailed" ->
            Ret([re EXCEPT !.searching = FALSE, !.error = TRUE], NoAction)
      [] OTHER -> Ret(re, NoAction)

\* ----------------------------------------------- TechniqueCardsComponent
TechniqueCards_selected_count(tc) ==
    Cardinality({i \in 1..Len(tc.techniques) : tc.techniques[i].selected})

\* techniques.push(card) followed by the stable sort by descending
\* relevance_score: the new card goes behind every card scoring at least as
\* much.
PushSorted(techniques, card) ==
    LET k == Cardinality({i \in 1..Len(techniques) :
                             techniques[i].relevance_score >= card.relevance_score})
    IN SubSeq(techniques, 1, k) \o <<card>> \o SubSeq(techniques, k + 1, Len(techniques))

ToggleAt(techniques, idx) ==
    IF idx + 1 \in 1..Len(techniques)
    THEN [techniques EXCEPT ![idx + 1].selected = ~@]
    ELSE techniques

\* An auto-selection that selects every technique.
AutoSelect_all(techniques) ==
    [i \in 1..Len(techniques) |-> [techniques[i] EXCEPT !.selected = TRUE]]

\* ExtractionComplete: "Auto-select top 10".
AutoSelect(techniques) ==
    [i \in 1..Len(techniques) |-> [techniques[i] EXCEPT !.selected = (i - 1 < 10)]]

\* The handler with a TechniqueExtractionFailed arm that counts the report
\* but records no error.
TechniqueCards_handle_action_no_error(tc, a) ==
    CASE a.type = "Tick" ->
            Ret(IF tc.extracting THEN [tc EXCEPT !.spinner_tick = @ + 1] ELSE tc,
                NoAction)
      [] a.type = "TechniqueExtracted" ->
            Ret([tc EXCEPT !.progress = <<@[1] + 1, @[2]>>,
                           !.techniques = PushSorted(@, a.arg)],
                NoAction)
      [] a.type = "TechniqueExtractionFailed" ->
            Ret([tc EXCEPT !.progress = <<@[1] + 1, @[2]>>], NoAction)
      [] a.type = "ExtractionComplete" ->
            Ret([tc EXCEPT !.extracting = FALSE, !.techniques = AutoSelect(@)],
                Act("SetStatus", "ExtractedTechniques"))
      [] OTHER -> Ret(tc, NoAction)

TechniqueCards_handle_action(tc, a) ==
    CASE a.type = "Tick" ->
            Ret(IF tc.extracting THEN [tc EXCEPT !.spinner_tick = @ + 1] ELSE tc,
                NoAction)
      [] a.type \in {"ScrollUp", "SelectPrev"} ->
            Ret(IF tc.selected > 0 THEN [tc EXCEPT !.selected = @ - 1] ELSE tc,
                NoAction)
      [] a.type \in {"ScrollDown", "SelectNext"} ->
            Ret(IF tc.selected + 1 < Len(tc.techniques)
                THEN [tc EXCEPT !.selected = @ + 1] ELSE tc,
                NoAction)
      [] a.type = "ToggleTechnique" ->
            Ret([tc EXCEPT !.techniques = ToggleAt(@, a.arg)], NoAction)
      [] a.type = "Confirm" ->
            Ret([tc EXCEPT !.techniques = ToggleAt(@, tc.selected)], NoAction)
      [] a.type = "TechniqueExtracted" ->
            Ret([tc EXCEPT !.progress = <<@[1] + 1, @[2]>>,
                           !.techniques = PushSorted(@, a.arg)],
                NoAction)
      [] a.type = "TechniqueExtractionFailed" ->
            Ret([tc EXCEPT !.progress = <<@[1] + 1, @[2]>>,
                           !.errors = Append(@, a.arg)],
                NoAction)
      [] a.type = "ExtractionComplete" ->
            Ret([tc EXCEPT !.extracting = FALSE, !.techniques = AutoSelect(@)],
                Act("SetStatus", "ExtractedTechniques"))
      [] OTHER -> Ret(tc, NoAction)

\* ------------------------------------------------ VariantBuilderComponent
HasVariant(variants, id) == \E i \in 1..Len(variants) : variants[i].id = id

FirstWithId(variants, id) ==
    CHOOSE i \in 1..Len(variants) :
        variants[i].id = id /\ \A j \in 1..(i - 1) : variants[j].id # id

\* The handler with a VariantGenerationFailed arm that marks every variant
\* Failed.
VariantBuilder_handle_action_fail_all(vb, a) ==
    CASE a.type = "VariantGenerated" ->
            Ret(IF HasVariant(vb.variants, a.arg.id)
                THEN [vb EXCEPT !.variants[FirstWithId(vb.variants, a.arg.id)] = a.arg]
                ELSE [vb EXCEPT !.variants = Append(@, a.arg)],
                NoAction)
      [] a.type = "VariantGenerationFailed" ->
            Ret([vb EXCEPT !.variants =
                    [i \in 1..Len(vb.variants) |->
                        [vb.variants[i] EXCEPT !.status = "Failed"]]],
                NoAction)
      [] a.type = "GenerationComplete" ->
            Ret([vb EXCEPT !.generating = FALSE], Act("SetStatus", "VariantsGenerated"))
      [] OTHER -> Ret(vb, NoAction)

VariantBuilder_handle_action(vb, a) ==
    CASE a.type \in {"ScrollUp", "SelectPrev"} ->
            Ret(IF vb.selected > 0 THEN [vb EXCEPT !.selected = @ - 1] ELSE vb,
                NoAction)
      [] a.type \in {"ScrollDown", "SelectNext"} ->
            Ret(IF vb.selected + 1 < Len(vb.variants)
                THEN [vb EXCEPT !.selected = @ + 1] ELSE vb,
                NoAction)
      [] a.type = "VariantGenerated" ->
            Ret(IF HasVariant(vb.variants, a.arg.id)
                THEN [vb EXCEPT !.variants[FirstWithId(vb.variants, a.arg.id)] = a.arg]
                ELSE [vb EXCEPT !.variants = Append(@, a.arg)],
                NoAction)
      [] a.type = "VariantGenerationFailed" ->
            Ret(IF HasVariant(vb.variants, a.arg)
                THEN [vb EXCEPT !.variants[FirstWithId(vb.variants, a.arg)].status = "Failed"]
                ELSE vb,
                NoAction)
      [] a.type = "GenerationComplete" ->
            Ret([vb EXCEPT !.generating = FALSE], Act("SetStatus", "VariantsGenerated"))
      [] a.type = "MergeComplete" ->
            Ret([vb EXCEPT !.variants = Append(@, a.arg)], NoAction)
      [] OTHER -> Ret(vb, NoAction)

\* -------------------------------------------- BenchmarkDashboardComponent
BenchmarkDashboard_handle_action(bd, a) ==
    CASE a.type \in {"ScrollUp", "SelectPrev"} ->
            Ret(IF bd.selected > 0 THEN [bd EXCEPT !.selected = @ - 1] ELSE bd,
                NoAction)
      [] a.type \in {"ScrollDown", "SelectNext"} ->
            Ret(IF bd.selected + 1 < Len(bd.variants)
                THEN [bd EXCEPT !.selected = @ + 1] ELSE bd,
                NoAction)
      [] a.type = "BenchmarkComplete" ->
            Ret([bd EXCEPT !.benchmarking = FALSE], Act("SetStatus", "BenchmarkingComplete"))
      [] OTHER -> Ret(bd, NoAction)

\* --------------------------------------------------- MergeDialogComponent
\* set_variants: the (id, display_name) pairs of the given variants.
set_variants(md, variants) ==
    [md EXCEPT !.available_variants = [i \in 1..Len(variants) |-> variants[i].id]]

MergeDialog_handle_action(md, a) ==
    IF ~md.visible
    THEN Ret(IF a.type = "OpenMergeDialog"
             THEN [md EXCEPT !.visible = TRUE, !.focused = "VariantA"]
             ELSE md,
             NoAction)
    ELSE
    CASE a.type = "CloseMergeDialog" -> Ret([md EXCEPT !.visible = FALSE], NoAction)
      [] a.type \in {"ScrollDown", "SelectNext"} ->
            Ret([md EXCEPT !.focused = IF @ = "VariantA" THEN "VariantB" ELSE "BlendSlider"],
                NoAction)
      [] a.type \in {"ScrollUp", "SelectPrev"} ->
            Ret([md EXCEPT !.focused = IF @ = "BlendSlider" THEN "VariantB" ELSE "VariantA"],
                NoAction)
      [] a.type = "NextPhase" ->
            Ret(CASE md.focused = "VariantA" ->
                        IF md.variant_a_idx + 1 < Len(md.available_variants)
                        THEN [md EXCEPT !.variant_a_idx = @ + 1] ELSE md
                  [] md.focused = "VariantB" ->
                        IF md.variant_b_idx + 1 < Len(md.available_variants)
                        THEN [md EXCEPT !.variant_b_idx = @ + 1] ELSE md
                  [] OTHER ->
                        [md EXCEPT !.blend_a = BlendRatio_next(md.blend_a),
                                   !.blend_b = BlendRatio_prev(BlendRatio_next(md.blend_a))],
                NoAction)
      [] a.type = "PrevPhase" ->
            Ret(CASE md.focused = "VariantA" ->
                        IF md.variant_a_idx > 0
                        THEN [md EXCEPT !.variant_a_idx = @ - 1] ELSE md
                  [] md.focused = "VariantB" ->
                        IF md.variant_b_idx > 0
                        THEN [md EXCEPT !.variant_b_idx = @ - 1] ELSE md
                  [] OTHER ->
                        [md EXCEPT !.blend_a = BlendRatio_prev(md.blend_a),
                                   !.blend_b = BlendRatio_next(BlendRatio_prev(md.blend_a))],
                NoAction)
      [] a.type = "Confirm" ->
            IF md.variant_a_idx = md.variant_b_idx
            THEN Ret(md, Act("SetStatus", "CannotMergeWithItself"))
            ELSE IF Len(md.available_variants) < 2
                 THEN Ret(md, Act("SetStatus", "NeedTwoVariants"))
                 ELSE IF \/ md.variant_a_idx >= Len(md.available_variants)
                         \/ md.variant_b_idx >= Len(md.available_variants)
                 THEN Ret(md, Act("Panic", "IndexOutOfBounds"))
                 ELSE Ret([md EXCEPT !.merging = TRUE, !.visible = FALSE],
                          Act("StartMerge",
                              [variant_a_id |-> md.available_variants[md.variant_a_idx + 1],
                               variant_b_id |-> md.available_variants[md.variant_b_idx + 1],
                               blend_a |-> BlendRatio_as_percent(md.blend_a),
                               blend_b |-> BlendRatio_as_percent(md.blend_b)]))
      [] OTHER -> Ret(md, NoAction)

\* ---------------------------------------------------------- HelpComponent
Help_handle_action(h, a) ==
    IF a.type = "ToggleHelp"
    THEN Ret([h EXCEPT !.visible = ~@], NoAction)
    ELSE IF h.visible
         THEN Ret([h EXCEPT !.visible = FALSE], NoAction)
         ELSE Ret(h, NoAction)

\* ----------------------------------------------------- StatusBarComponent
StatusBar_handle_action(sb, a) ==
    CASE a.type = "SetStatus" -> Ret([sb EXCEPT !.message = a.arg], NoAction)
      [] a.type = "ClearStatus" -> Ret([sb EXCEPT !.message = ""], NoAction)
      [] a.type = "GoToPhase" -> Ret([sb EXCEPT !.current_phase = a.arg], NoAction)
      [] OTHER -> Ret(sb, NoAction)

\* -------------------------------------------------------------------- App
\* App::new followed by the set_initial_* calls of main.
App_new(path, description) ==
    [current_phase |-> "ProjectIntake",
     should_quit |-> FALSE,
     input_mode_flag |-> "Normal",
     sidecar_manager |-> FALSE,
     sidecar_client |-> FALSE,
     sidecar_startup_rx |-> FALSE,
     user_description |-> <<>>,
     project_intake |-> ProjectIntakeComponent_new(path, description),
     research_explorer |-> ResearchExplorerComponent_new,
     technique_cards |-> TechniqueCardsComponent_new,
     variant_builder |-> VariantBuilderComponent_new,
     benchmark_dashboard |-> BenchmarkDashboardComponent_new,
     merge_dialog |-> MergeDialogComponent_new,
     status_bar |-> StatusBarComponent_new,
     help |-> HelpComponent_new]

\* The context of one handle_action call tree: the App, the actions sent on
\* tx while it runs (out), the tasks it spawns (spawn), and two records of
\* what it did: the actions dispatched with their nesting depth (log) and the
\* chained actions a handler returned that were never dispatched (dropped);
\* chained is the local variable of that name, forwarded the phase components
\* the actions were forwarded to.
Ctx(a) ==
    [app |-> a, out |-> <<>>, spawn |-> <<>>, log |-> <<>>, dropped |-> <<>>,
     chained |-> NoAction, forwarded |-> <<>>]

Send(c, a) == [c EXCEPT !.out = Append(@, a)]

SpawnTask(c, t) == [c EXCEPT !.spawn = Append(@, t)]

Task(kind, unit, pc) == [kind |-> kind, unit |-> unit, pc |-> pc]

\* A derived mode that does not look at the overlays.
current_input_mode_no_overlay(a) ==
    IF a.current_phase = "ProjectIntake" /\ ProjectIntake_wants_input(a.project_intake)
    THEN "Editing"
    ELSE "Normal"

current_input_mode(a) ==
    IF a.help.visible \/ a.merge_dialog.visible THEN "Normal"
    ELSE IF a.current_phase = "ProjectIntake" /\ ProjectIntake_wants_input(a.project_intake)
         THEN "Editing"
         ELSE "Normal"

sync_input_mode(a) == [a EXCEPT !.input_mode_flag = current_input_mode(a)]

\* Variant::from_technique(index, technique): a Pending variant stub whose
\* id is derived from the index.
Variant_from_technique(index, technique) ==
    [id |-> index, status |-> "Pending", technique |-> technique.paper_id,
     benchmark_results |-> FALSE]

HasReady(variants) == \E i \in 1..Len(variants) : variants[i].status = "Ready"

NoneBenchmarked(variants) ==
    \A i \in 1..Len(variants) : ~variants[i].benchmark_results

\* The conditions under which auto_trigger_phase sends the start-job action.
AutoTriggerCondition(a, phase) ==
    CASE phase = "ResearchDiscovery" ->
            /\ a.project_intake.profile
            /\ a.research_explorer.papers = <<>>
            /\ ~a.research_explorer.searching
      [] phase = "TechniqueSelection" ->
            /\ a.research_explorer.papers # <<>>
            /\ a.technique_cards.techniques = <<>>
            /\ ~a.technique_cards.extracting
            /\ ~a.technique_cards.extraction_attempted
      [] phase = "VariantGeneration" ->
            /\ TechniqueCards_selected_count(a.technique_cards) > 0
            /\ a.variant_builder.variants = <<>>
            /\ ~a.variant_builder.generating
      [] phase = "Benchmarking" ->
            /\ HasReady(a.variant_builder.variants)
            /\ NoneBenchmarked(a.benchmark_dashboard.variants)
            /\ ~a.benchmark_dashboard.benchmarking
      [] OTHER -> FALSE

StartJobAction(a, phase) ==
    CASE phase = "ResearchDiscovery" -> Act("StartResearch", 0)
      [] phase = "TechniqueSelection" -> Act("StartExtraction", a.research_explorer.papers)
      [] phase = "VariantGeneration" -> Act("StartGeneration", 0)
      [] phase = "Benchmarking" -> Act("StartBenchmark", 0)

auto_trigger_phase(c, phase) ==
    IF AutoTriggerCondition(c.app, phase)
    THEN Send(c, StartJobAction(c.app, phase))
    ELSE c

spawn_analyze_project(c) ==
    IF ~c.app.sidecar_client
    THEN Send(c, Act("ProjectAnalysisFailed", 0))
    ELSE SpawnTask(Send(c, Act("SetStatus", "Analyzing")), Task("analyze", 0, "call"))

spawn_search_papers(c) ==
    IF ~c.app.sidecar_client
    THEN Send(c, Act("ResearchFailed", 0))
    ELSE SpawnTask(Send(c, Act("SetStatus", "Searching")), Task("search", 0, "start"))

\* ExtractLoop without the "continue" after the immediate failure.
RECURSIVE ExtractLoop_no_continue(_, _)
ExtractLoop_no_continue(c, papers) ==
    IF papers = <<>> THEN c
    ELSE LET paper == Head(papers) IN
         ExtractLoop_no_continue(
            SpawnTask(IF ~paper.has_source
                      THEN Send(c, Act("TechniqueExtractionFailed", paper.id))
                      ELSE c,
                      Task("extract", paper.id, "start")),
            Tail(papers))

\* The per-paper loop of spawn_extract_techniques: a paper with neither a PDF
\* URL nor a DOI reports its failure at once, every other paper gets a task.
RECURSIVE ExtractLoop(_, _)
ExtractLoop(c, papers) ==
    IF papers = <<>> THEN c
    ELSE LET paper == Head(papers) IN
         ExtractLoop(IF ~paper.has_source
                     THEN Send(c, Act("TechniqueExtractionFailed", paper.id))
                     ELSE SpawnTask(c, Task("extract", paper.id, "start")),
                     Tail(papers))

\* paper_id "all" is modelled by 0, which is no paper's id.
spawn_extract_techniques(c, papers) ==
    IF ~c.app.sidecar_client
    THEN Send(c, Act("TechniqueExtractionFailed", 0))
    ELSE ExtractLoop(Send(c, Act("SetStatus", "Extracting")), papers)

\* The loop of spawn_generate_variants over the selected techniques: push the
\* Pending stub, spawn the task.
RECURSIVE GenerateLoop(_, _, _)
GenerateLoop(c, selected, index) ==
    IF selected = <<>> THEN c
    ELSE LET variant == Variant_from_technique(index, Head(selected)) IN
         GenerateLoop(SpawnTask([c EXCEPT !.app.variant_builder.variants = Append(@, variant)],
                                [kind |-> "generate", unit |-> index, pc |-> "call",
                                 technique |-> Head(selected), variant_id |-> variant.id]),
                      Tail(selected), index + 1)

SelectedTechniques(techniques) ==
    SeqFilter(techniques, {t \in Range(techniques) : t.selected})

\* variant_id "all" is modelled by 0, which is no variant's id.
spawn_generate_variants(c) ==
    IF ~c.app.sidecar_client
    THEN Send(c, Act("VariantGenerationFailed", 0))
    ELSE IF ~c.app.project_intake.profile
    THEN Send(c, Act("SetStatus", "NoProjectProfile"))
    ELSE IF SelectedTechniques(c.app.technique_cards.techniques) = <<>>
    THEN Send(c, Act("SetStatus", "NoTechniquesSelected"))
    ELSE GenerateLoop(
            Send([c EXCEPT !.app.variant_builder.generating = TRUE],
                 Act("SetStatus", "Generating")),
            SelectedTechniques(c.app.technique_cards.techniques), 1)

ReadyBranches(variants) ==
    SeqFilter(variants, {v \in Range(variants) : v.status = "Ready"})

spawn_run_benchmarks(c) ==
    IF ~c.app.sidecar_client
    THEN Send(c, Act("SetStatus", "SidecarNotRunning"))
    ELSE IF ~c.app.project_intake.profile
    THEN Send(c, Act("SetStatus", "NoProjectPath"))
    ELSE LET c1 == [c EXCEPT !.app.benchmark_dashboard.variants =
                                  c.app.variant_builder.variants,
                             !.app.benchmark_dashboard.benchmarking = TRUE]
             ready == ReadyBranches(c.app.variant_builder.variants)
         IN IF ready = <<>>
            THEN [Send(c1, Act("SetStatus", "NoReadyVariants"))
                    EXCEPT !.app.benchmark_dashboard.benchmarking = FALSE]
            ELSE SpawnTask(
                    SpawnTask(Send(c1, Act("SetStatus", "RunningBenchmarks")),
                              [kind |-> "bench_exec", unit |-> 0, pc |-> "call",
                               branches |-> [i \in 1..Len(ready) |-> ready[i].id]]),
                    [kind |-> "bench_judge", unit |-> 0, pc |-> "call",
                     branches |-> [i \in 1..Len(ready) |-> ready[i].id]])

\* A phase change that leaves the status bar as it is.
SetPhase_no_bar(c, phase) == [c EXCEPT !.app.current_phase = phase]

SetPhase(c, phase) ==
    [c EXCEPT !.app.current_phase = phase, !.app.status_bar.current_phase = phase]

\* The global match with a StartResearch that does not look at the
\* searching flag.
GlobalActions_restart(c, a) ==
    CASE a.type = "GoToPhase" -> auto_trigger_phase(SetPhase(c, a.arg), a.arg)
      [] a.type = "NextPhase" ->
            IF /\ current_input_mode(c.app) # "Editing"
               /\ Phase_next(c.app.current_phase) # "None"
               /\ ~c.app.merge_dialog.visible
            THEN auto_trigger_phase(SetPhase(c, Phase_next(c.app.current_phase)),
                                    Phase_next(c.app.current_phase))
            ELSE c
      [] a.type = "PrevPhase" ->
            IF /\ current_input_mode(c.app) # "Editing"
               /\ Phase_prev(c.app.current_phase) # "None"
               /\ ~c.app.merge_dialog.visible
            THEN SetPhase(c, Phase_prev(c.app.current_phase))
            ELSE c
      [] a.type = "SubmitProject" ->
            spawn_analyze_project([c EXCEPT !.app.user_description = a.arg])
      [] a.type = "StartResearch" ->
            spawn_search_papers([c EXCEPT !.app.research_explorer.searching = TRUE])
      [] a.type = "StartExtraction" ->
            IF ~c.app.technique_cards.extracting
            THEN spawn_extract_techniques(
                    [c EXCEPT !.app.technique_cards.extracting = TRUE,
                              !.app.technique_cards.extraction_attempted = TRUE,
                              !.app.technique_cards.progress = <<0, Len(a.arg)>>],
                    a.arg)
            ELSE c
      [] a.type = "StartGeneration" ->
            IF ~c.app.variant_builder.generating THEN spawn_generate_variants(c) ELSE c
      [] a.type = "StartBenchmark" ->
            IF ~c.app.benchmark_dashboard.benchmarking THEN spawn_run_benchmarks(c) ELSE c
      [] OTHER -> c

\* The first match of handle_action ("Global actions first"), Quit excluded.
GlobalActions(c, a) ==
    CASE a.type = "GoToPhase" -> auto_trigger_phase(SetPhase(c, a.arg), a.arg)
      [] a.type = "NextPhase" ->
            IF /\ current_input_mode(c.app) # "Editing"
               /\ Phase_next(c.app.current_phase) # "None"
               /\ ~c.app.merge_dialog.visible
            THEN auto_trigger_phase(SetPhase(c, Phase_next(c.app.current_phase)),
                                    Phase_next(c.app.current_phase))
            ELSE c
      [] a.type = "PrevPhase" ->
            IF /\ current_input_mode(c.app) # "Editing"
               /\ Phase_prev(c.app.current_phase) # "None"
               /\ ~c.app.merge_dialog.visible
            THEN SetPhase(c, Phase_prev(c.app.current_phase))
            ELSE c
      [] a.type = "SubmitProject" ->
            spawn_analyze_project([c EXCEPT !.app.user_description = a.arg])
      [] a.type = "StartResearch" ->
            IF ~c.app.research_explorer.searching
            THEN spawn_search_papers([c EXCEPT !.app.research_explorer.searching = TRUE])
            ELSE c
      [] a.type = "StartExtraction" ->
            IF ~c.app.technique_cards.extracting
            THEN spawn_extract_techniques(
                    [c EXCEPT !.app.technique_cards.extracting = TRUE,
                              !.app.technique_cards.extraction_attempted = TRUE,
                              !.app.technique_cards.progress = <<0, Len(a.arg)>>],
                    a.arg)
            ELSE c
      [] a.type = "StartGeneration" ->
            IF ~c.app.variant_builder.generating THEN spawn_generate_variants(c) ELSE c
      [] a.type = "StartBenchmark" ->
            IF ~c.app.benchmark_dashboard.benchmarking THEN spawn_run_benchmarks(c) ELSE c
      [] OTHER -> c

\* "Forward to the active phase component": the App after the component of
\* the current phase handled the action, and the chained action it returned.
ForwardToActive(a, action) ==
    CASE a.current_phase = "ProjectIntake" ->
            LET r == ProjectIntake_handle_action(a.project_intake, action)
            IN Ret([a EXCEPT !.project_intake = r.st], r.result)
      [] a.current_phase = "ResearchDiscovery" ->
            LET r == ResearchExplorer_handle_action(a.research_explorer, action)
            IN Ret([a EXCEPT !.research_explorer = r.st], r.result)
      [] a.current_phase = "TechniqueSelection" ->
            LET r == TechniqueCards_handle_action(a.technique_cards, action)
            IN Ret([a EXCEPT !.technique_cards = r.st], r.result)
      [] a.current_phase = "VariantGeneration" ->
            LET r == VariantBuilder_handle_action(a.variant_builder, action)
            IN Ret([a EXCEPT !.variant_builder = r.st], r.result)
      [] a.current_phase = "Benchmarking" ->
            LET r == BenchmarkDashboard_handle_action(a.benchmark_dashboard, action)
            IN Ret([a EXCEPT !.benchmark_dashboard = r.st], r.result)

\* A forward where the handling of SetStatus returns a follow-up action of
\* its own.
ForwardToPhase_chain_status(c, action) ==
    LET fw == ForwardToActive(c.app, action)
    IN [c EXCEPT !.app = fw.st,
                 !.chained = IF action.type = "SetStatus"
                             THEN Act("ClearStatus", 0) ELSE fw.result,
                 !.forwarded = Append(@, [type |-> action.type,
                                          to |-> c.app.current_phase])]

\* let chained = match self.current_phase { ... }.
ForwardToPhase(c, action) ==
    LET fw == ForwardToActive(c.app, action)
    IN [c EXCEPT !.app = fw.st, !.chained = fw.result,
                 !.forwarded = Append(@, [type |-> action.type,
                                          to |-> c.app.current_phase])]

\* The chained action a handler returned, if any.
Returned(r) == IF r.result.type = "None" THEN <<>> ELSE <<r.result>>

\* "Always forward to overlays and status bar": the three return values are
\* discarded by the caller; the ones that carried an action are recorded.
ForwardToOverlays(c, action) ==
    LET md == MergeDialog_handle_action(c.app.merge_dialog, action)
        hp == Help_handle_action(c.app.help, action)
        sb == StatusBar_handle_action(c.app.status_bar, action)
    IN [c EXCEPT !.app.merge_dialog = md.st,
                 !.app.help = hp.st,
                 !.app.status_bar = sb.st,
                 !.dropped = @ \o Returned(md) \o Returned(hp) \o Returned(sb)]

SyncInputMode(c) == [c EXCEPT !.app = sync_input_mode(c.app)]

\* "Auto-advance: when project analysis completes, move to Phase 2."
AutoAdvance(c, action) ==
    IF action.type = "ProjectAnalyzed" /\ c.app.project_intake.profile
    THEN auto_trigger_phase(SyncInputMode(SetPhase(c, "ResearchDiscovery")),
                            "ResearchDiscovery")
    ELSE c

\* "Check if all technique extraction is complete": let (done, total) =
\* progress; total > 0 && done >= total.
ExtractionAllDone(tc) == tc.progress[2] > 0 /\ tc.progress[1] >= tc.progress[2]

\* "Check if all variant generation is complete": no variant is Pending or
\* Generating.
GenerationAllDone(vb) ==
    \A i \in 1..Len(vb.variants) : vb.variants[i].status \notin {"Pending", "Generating"}

ExtractionCheck(c, action) ==
    /\ c.app.technique_cards.extracting
    /\ action.type \in {"TechniqueExtracted", "TechniqueExtractionFailed"}
    /\ ExtractionAllDone(c.app.technique_cards)

GenerationCheck(c, action) ==
    /\ c.app.variant_builder.generating
    /\ action.type \in {"VariantGenerated", "VariantGenerationFailed"}
    /\ GenerationAllDone(c.app.variant_builder)

\* The one element of a one-element set.
The(S) == CHOOSE x \in S : TRUE

\* App::handle_action: each set below holds the context after one more
\* statement of the function, in the order of the source.
RECURSIVE handle_action(_, _, _)
handle_action(c, action, depth) ==
    IF action.type = "Quit"
    THEN [c EXCEPT !.log = Append(@, [type |-> action.type, depth |-> depth]),
                   !.app.should_quit = TRUE]
    ELSE The(UNION {
            {IF c4.chained.type # "None"
             THEN handle_action(c6, c4.chained, depth + 1)
             ELSE c6 :
                c6 \in {IF GenerationCheck(c5, action)
                        THEN handle_action(c5, Act("GenerationComplete", 0), depth + 1)
                        ELSE c5 :
                           c5 \in {IF ExtractionCheck(c4, action)
                                   THEN handle_action(c4, Act("ExtractionComplete", 0),
                                                      depth + 1)
                                   ELSE c4}}} :
            c4 \in {AutoAdvance(c3, action) :
               c3 \in {SyncInputMode(c2) :
                  c2 \in {ForwardToOverlays(c1, action) :
                     c1 \in {ForwardToPhase(c0, action) :
                        c0 \in {GlobalActions(
                                   [c EXCEPT !.log = Append(@, [type |-> action.type,
                                                                depth |-> depth])],
                                   action)}}}}}})

\* ------------------------------------------------------------------ state
VARIABLES
    app,        \* the App struct: every field the reducer owns
    queue,      \* the unbounded mpsc channel of Actions, oldest first
    rx_alive,   \* the receiving end of the channel exists
    main_pc,    \* position of App::run
    tasks,      \* background tasks spawned with tokio::spawn, in spawn order
    handler,    \* the EventHandler task: [alive, events]
    startup,    \* the sidecar startup task and its oneshot channel
    hist,       \* history: per-unit calls and terminal actions, job counters
    sup,        \* the supervisor: manager, collaborator process, clock
    lineage     \* the lineage trees built so far and the pairs attached

vars == <<app, queue, rx_alive, main_pc, tasks, handler, startup, hist, sup, lineage>>

\* ------------------------------------------------------------ supervisor
STARTUP_TIMEOUT_SECS == 60

HEALTH_POLL_INTERVAL_MS == 250

\* SidecarManager::new: no child, port 0.  Beside the struct's fields: proc
\* is the collaborator process as the operating system sees it, spawned and
\* kills count the processes spawned and the kill signals issued, pc is the
\* position of the call in progress, result what the latest call returned,
\* elapsed the milliseconds since wait_for_healthy took its deadline, calls
\* what the latest shutdown() did, in order, and dropped that the manager
\* has been destroyed.
SidecarManager_new ==
    [child |-> FALSE, port |-> 0, proc |-> "none", spawned |-> 0, kills |-> 0,
     calls |-> <<>>, pc |-> "idle", result |-> "none", elapsed |-> 0,
     dropped |-> FALSE]

SpawnOutcomes == {"no_port", "no_spawn", "spawned"}

\* A start() without the check for a held child.
Manager_start_respawn(m, outcome) ==
    CASE outcome = "no_port" -> [m EXCEPT !.result = "error"]
      [] outcome = "no_spawn" -> [m EXCEPT !.port = m.spawned + 1, !.result = "error"]
      [] OTHER -> [m EXCEPT !.port = m.spawned + 1, !.child = TRUE,
                            !.proc = "running", !.spawned = @ + 1,
                            !.pc = "polling", !.elapsed = 0, !.result = "none"]

\* SidecarManager::start up to the call of wait_for_healthy.
Manager_start(m, outcome) ==
    IF m.child THEN [m EXCEPT !.result = "already_running"]
    ELSE CASE outcome = "no_port" -> [m EXCEPT !.result = "error"]
           [] outcome = "no_spawn" -> [m EXCEPT !.port = m.spawned + 1, !.result = "error"]
           [] OTHER -> [m EXCEPT !.port = m.spawned + 1, !.child = TRUE,
                                 !.proc = "running", !.spawned = @ + 1,
                                 !.pc = "polling", !.elapsed = 0, !.result = "none"]

\* What GET /api/health can do, by the state of the process; the request
\* carries no timeout, so it may also never return.
GetResults(m) ==
    CASE m.proc = "healthy" -> {"success", "hang"}
      [] m.proc = "running" -> {"refused", "non_success", "hang"}
      [] OTHER -> {"refused"}

\* A loop that gives up on the first request that is not answered with
\* success.
Manager_poll_fail_on_refused(m, get) ==
    IF m.elapsed > STARTUP_TIMEOUT_SECS * 1000
    THEN [m EXCEPT !.pc = "idle", !.result = "timeout"]
    ELSE CASE get = "success" -> [m EXCEPT !.pc = "idle", !.result = "ok"]
           [] get = "hang" -> [m EXCEPT !.pc = "hung"]
           [] OTHER -> [m EXCEPT !.pc = "idle", !.result = "error"]

\* One turn of the loop of wait_for_healthy.
Manager_poll(m, get) ==
    IF m.elapsed > STARTUP_TIMEOUT_SECS * 1000
    THEN [m EXCEPT !.pc = "idle", !.result = "timeout"]
    ELSE CASE get = "success" -> [m EXCEPT !.pc = "idle", !.result = "ok"]
           [] get = "hang" -> [m EXCEPT !.pc = "hung"]
           [] OTHER -> [m EXCEPT !.elapsed = @ + HEALTH_POLL_INTERVAL_MS]

\* What POST /api/shutdown can do: a process that has exited refuses the
\* connection; the request carries no timeout either.
PostResults(m) ==
    IF m.proc = "exited" THEN {"error"} ELSE {"ok", "error", "hang"}

\* The try_wait results the process state allows: a process that has exited
\* is reported exited, a live one may have exited by now; the call itself
\* may fail.
TryWaitResults(m) ==
    (IF m.proc = "exited" THEN {"exited"} ELSE {"exited", "running"}) \cup {"error"}

\* A shutdown() that forgets the child without ending the process.
Manager_shutdown_no_kill(m, post, wait) ==
    IF ~m.child THEN [m EXCEPT !.calls = <<>>, !.result = "ok"]
    ELSE IF post = "hang" THEN [m EXCEPT !.calls = <<"post_shutdown">>, !.pc = "hung"]
    ELSE [m EXCEPT !.calls = <<"post_shutdown", "try_wait">>,
                   !.child = FALSE, !.result = "ok"]

\* SidecarManager::shutdown, whole.  post: what the POST to /api/shutdown
\* did; wait: what child.try_wait() returned.
\* Dropping the handle of a process that was not reaped kills it
\* (kill_on_drop).
Manager_shutdown(m, post, wait) ==
    IF ~m.child THEN [m EXCEPT !.calls = <<>>, !.result = "ok"]
    ELSE IF post = "hang" THEN [m EXCEPT !.calls = <<"post_shutdown">>, !.pc = "hung"]
    ELSE [m EXCEPT
            !.calls = <<"post_shutdown">>
                      \o (IF post = "ok" THEN <<"sleep">> ELSE <<>>)
                      \o <<"try_wait">>
                      \o (IF wait = "running" THEN <<"kill">> ELSE <<>>),
            !.kills = IF wait = "exited" THEN @ ELSE @ + 1,
            !.proc = "exited",
            !.child = FALSE,
            !.result = "ok"]

\* SidecarManager::is_running.
is_running(m) == m.child

\* A destruction that leaves a held child alone.
Manager_drop_no_kill(m) == [m EXCEPT !.dropped = TRUE, !.pc = "idle"]

\* impl Drop for SidecarManager: start_kill on a held child.
Manager_drop(m) ==
    IF m.child
    THEN [m EXCEPT !.kills = @ + 1, !.proc = "exited", !.dropped = TRUE, !.pc = "idle"]
    ELSE [m EXCEPT !.dropped = TRUE, !.pc = "idle"]

\* ---------------------------------------------------------------- lineage
\* No lineage tree: forest holds the trees that are nobody's parent, attached
\* the (technique, paper) pairs attached so far, minted the variant ids
\* given out.
NoLineage == [forest |-> <<>>, attached |-> <<>>, minted |-> 0]

\* LineageNode::Original and LineageNode::Merged.
LineageNode_Original(variant_id, technique_name, paper_id) ==
    [kind |-> "Original", variant_id |-> variant_id,
     technique_name |-> technique_name, paper_id |-> paper_id]

LineageNode_Merged(variant_id, blend_a, blend_b, parent_a, parent_b) ==
    [kind |-> "Merged", variant_id |-> variant_id, blend_a |-> blend_a,
     blend_b |-> blend_b, parent_a |-> parent_a, parent_b |-> parent_b]

LineageNode_variant_id(node) == node.variant_id

\* attach(technique): an Original leaf under a fresh variant id is added to
\* the forest.
attach(l, technique_name, paper_id) ==
    [forest |-> Append(l.forest,
                       LineageNode_Original(l.minted + 1, technique_name, paper_id)),
     attached |-> Append(l.attached, <<technique_name, paper_id>>),
     minted |-> l.minted + 1]

\* The forest without the trees at positions i and j.
Without(forest, i, j) ==
    SeqFilter(forest, {forest[k] : k \in (1..Len(forest)) \ {i, j}})

\* A merge that keeps the first parent's subtree on both sides.
merge_alias(l, i, j, blend_a, blend_b) ==
    [l EXCEPT !.forest = Append(Without(l.forest, i, j),
                                LineageNode_Merged(l.minted + 1, blend_a, blend_b,
                                                   l.forest[i], l.forest[i])),
              !.minted = @ + 1]

\* merge(node_a, node_b, blend_a, blend_b): a Merged node under a fresh
\* variant id takes the two trees, which leave the forest.
merge(l, i, j, blend_a, blend_b) ==
    [l EXCEPT !.forest = Append(Without(l.forest, i, j),
                                LineageNode_Merged(l.minted + 1, blend_a, blend_b,
                                                   l.forest[i], l.forest[j])),
              !.minted = @ + 1]

\* The leaves of a tree, left to right, as (technique, paper) pairs.
RECURSIVE flatten(_)
flatten(node) ==
    IF node.kind = "Original"
    THEN <<(<<node.technique_name, node.paper_id>>)>>
    ELSE flatten(node.parent_a) \o flatten(node.parent_b)

\* ------------------------------------------------------------------ Init
\* Descriptions given on the command line: no text, or one line of text.
DescriptionInputs ==
    UNION {[1..n -> {"c"}] : n \in 0..MaxText}

\* The history of the two fan-out jobs.  Extraction units are named by
\* paper id, generation units by their index: per unit the remote calls made
\* (calls), the terminal actions sent (sent) and the terminal actions the
\* reducer drained (drained; for generation by variant id); the success and
\* failure reports drained, and the job-complete actions dispatched.
\* search_jobs and bench_jobs count the searches and benchmark runs whose
\* tasks were spawned.
NoCounts == [i \in 0..MaxPapers |-> 0]

HistInit ==
    [papers_made |-> 0, search_jobs |-> 0, bench_jobs |-> 0,
     ext_jobs |-> 0, ext_units |-> <<>>, ext_calls |-> NoCounts, ext_sent |-> NoCounts,
     ext_drained |-> NoCounts, ext_ok |-> 0, ext_err |-> 0, ext_complete |-> 0,
     gen_jobs |-> 0, gen_units |-> <<>>, gen_ids |-> <<>>, gen_calls |-> NoCounts, gen_sent |-> NoCounts,
     gen_drained |-> NoCounts, gen_complete |-> 0]

\* The state when App::run enters its main loop: the event handler and the
\* sidecar startup task are spawned, "Starting Python sidecar..." is on the
\* bus, the startup receiver is stored and the input mode is synchronised.
InitWith(script, ticks) ==
    /\ \E path \in 0..MaxText, description \in DescriptionInputs :
          app = sync_input_mode([App_new(path, description)
                                    EXCEPT !.sidecar_startup_rx = TRUE])
    /\ queue = <<Act("SetStatus", "StartingSidecar")>>
    /\ rx_alive = TRUE
    /\ main_pc = "poll"
    /\ tasks = <<>>
    /\ handler = [alive |-> TRUE, script |-> script, events |-> 0, ticks |-> ticks]
    /\ startup = [pc |-> "spawned", chan |-> "empty"]
    /\ hist = HistInit
    /\ sup = SidecarManager_new
    /\ lineage = NoLineage

\* --------------------------------------------------------- event handler
Keys == {"CtrlC", "q", "?", "Right", "Left", "Tab", "Up", "Down", "Enter", "m",
         "Esc", "1", "2", "3", "4", "5", "Backspace", "CtrlEnter", "Char"}

map_key_editing(key) ==
    CASE key = "CtrlEnter" -> Act("SubmitForm", 0)
      [] key = "Esc" -> Act("CloseMergeDialog", 0)
      [] key = "Tab" -> Act("SwitchInputField", 0)
      [] key = "Enter" -> Act("NewlineInput", 0)
      [] key = "Up" -> Act("ScrollUp", 0)
      [] key = "Down" -> Act("ScrollDown", 0)
      [] key = "Backspace" -> Act("BackspaceInput", 0)
      [] key \in {"q", "?", "m", "1", "2", "3", "4", "5", "Char"} -> Act("CharInput", 0)
      [] OTHER -> NoAction

map_key_normal(key) ==
    CASE key = "q" -> Act("Quit", 0)
      [] key = "?" -> Act("ToggleHelp", 0)
      [] key \in {"Right", "Tab"} -> Act("NextPhase", 0)
      [] key = "Left" -> Act("PrevPhase", 0)
      [] key = "Up" -> Act("ScrollUp", 0)
      [] key = "Down" -> Act("ScrollDown", 0)
      [] key \in {"Enter", "CtrlEnter"} -> Act("Confirm", 0)
      [] key = "m" -> Act("OpenMergeDialog", 0)
      [] key = "Esc" -> Act("CloseMergeDialog", 0)
      [] key = "1" -> Act("GoToPhase", "ProjectIntake")
      [] key = "2" -> Act("GoToPhase", "ResearchDiscovery")
      [] key = "3" -> Act("GoToPhase", "TechniqueSelection")
      [] key = "4" -> Act("GoToPhase", "VariantGeneration")
      [] key = "5" -> Act("GoToPhase", "Benchmarking")
      [] OTHER -> NoAction

\* map_key: Ctrl+C quits in any mode; the rest by the mode flag as read now.
map_key(mode, key) ==
    IF key = "CtrlC" THEN Act("Quit", 0)
    ELSE IF mode = "Editing" THEN map_key_editing(key)
    ELSE map_key_normal(key)

\* A send that puts the new actions in front of the waiting ones.
Deliver_front(q, actions) == IF rx_alive THEN actions \o q ELSE q

\* A send that is queued whether or not the receiver exists.
Deliver_after_drop(q, actions) == q \o actions

\* tx.send: appended while the receiver exists, discarded after.
Deliver(q, actions) == IF rx_alive THEN q \o actions ELSE q

\* The sending end of a producer: the program runs and the bus has room.
Running == main_pc # "terminated" /\ Len(queue) < MaxQueue

\* One turn of EventHandler::run: the mapped action, if there is one, is
\* sent; a failed send ends the loop.
HandlerSend(action) ==
    /\ handler.alive /\ Running
    /\ IF action.type = "None"
       THEN UNCHANGED queue
       ELSE queue' = Deliver(queue, <<action>>)
    /\ UNCHANGED <<app, rx_alive, main_pc, tasks, startup, hist, sup, lineage>>

\* The interval fired.
HandlerTick ==
    /\ handler.ticks > 0
    /\ HandlerSend(Act("Tick", 0))
    /\ handler' = [handler EXCEPT !.alive = rx_alive, !.ticks = @ - 1]

\* The user pressed the next key; it is mapped under the mode flag as it is
\* now.
HandlerKey ==
    /\ handler.events < Len(handler.script)
    /\ LET action == map_key(app.input_mode_flag, handler.script[handler.events + 1])
       IN /\ HandlerSend(action)
          /\ handler' = [handler EXCEPT !.alive = (action.type = "None") \/ rx_alive,
                                        !.events = @ + 1]

\* ------------------------------------------------------------ main loop
\* poll_sidecar_startup, then the loop waits for the next action.
poll_sidecar_startup(a, chan) ==
    IF ~a.sidecar_startup_rx THEN a
    ELSE CASE chan = "ok" -> [a EXCEPT !.sidecar_manager = TRUE,
                                       !.sidecar_client = TRUE,
                                       !.sidecar_startup_rx = FALSE]
           [] chan \in {"err", "closed"} -> [a EXCEPT !.sidecar_startup_rx = FALSE]
           [] OTHER -> a

Poll ==
    /\ main_pc = "poll"
    /\ app' = poll_sidecar_startup(app, startup.chan)
    /\ startup' = IF app.sidecar_startup_rx /\ startup.chan = "ok"
                  THEN [startup EXCEPT !.chan = "taken"]
                  ELSE startup
    /\ main_pc' = "recv"
    /\ UNCHANGED <<queue, rx_alive, tasks, handler, hist, sup, lineage>>

CountType(s, type) == Cardinality({i \in 1..Len(s) : s[i].type = type})

CountSent(out, type, id) ==
    Cardinality({i \in 1..Len(out) : out[i].type = type /\ out[i].arg = id})

Bump(f, id) == [f EXCEPT ![id] = @ + 1]

\* The generation tasks among the tasks a dispatch spawned.
SpawnedGenerate(spawn) ==
    LET idx == SeqFilter([i \in 1..Len(spawn) |-> i],
                         {i \in 1..Len(spawn) : spawn[i].kind = "generate"})
    IN [k \in 1..Len(idx) |-> spawn[idx[k]]]

\* The history after the reducer drained action a and handle_action ended
\* in context r.
HistAfter(h, a, before, r) ==
    LET ext_start == a.type = "StartExtraction" /\ ~before.technique_cards.extracting
        gen_start == /\ a.type = "StartGeneration"
                     /\ ~before.variant_builder.generating
                     /\ r.app.variant_builder.generating
        search_start == /\ a.type = "StartResearch"
                        /\ ~before.research_explorer.searching
                        /\ r.spawn # <<>>
        bench_start == /\ a.type = "StartBenchmark"
                       /\ ~before.benchmark_dashboard.benchmarking
                       /\ r.spawn # <<>>
    IN [h EXCEPT
          !.search_jobs = IF search_start THEN @ + 1 ELSE @,
          !.bench_jobs = IF bench_start THEN @ + 1 ELSE @,
          !.ext_jobs = IF ext_start THEN @ + 1 ELSE @,
          !.ext_units = IF ext_start THEN [i \in 1..Len(a.arg) |-> a.arg[i].id] ELSE @,
          !.ext_sent = [id \in DOMAIN @ |->
                           @[id] + CountSent(r.out, "TechniqueExtractionFailed", id)],
          !.ext_drained = CASE a.type = "TechniqueExtracted" -> Bump(@, a.arg.paper_id)
                            [] a.type = "TechniqueExtractionFailed" -> Bump(@, a.arg)
                            [] OTHER -> @,
          !.ext_ok = IF a.type = "TechniqueExtracted" THEN @ + 1 ELSE @,
          !.ext_err = IF a.type = "TechniqueExtractionFailed" THEN @ + 1 ELSE @,
          !.ext_complete = @ + CountType(r.log, "ExtractionComplete"),
          !.gen_jobs = IF gen_start THEN @ + 1 ELSE @,
          !.gen_units = IF gen_start
                        THEN [k \in 1..Len(SpawnedGenerate(r.spawn)) |->
                                 SpawnedGenerate(r.spawn)[k].unit]
                        ELSE @,
          !.gen_ids = IF gen_start
                      THEN [k \in 1..Len(SpawnedGenerate(r.spawn)) |->
                               SpawnedGenerate(r.spawn)[k].variant_id]
                      ELSE @,
          !.gen_sent = [id \in DOMAIN @ |->
                           @[id] + CountSent(r.out, "VariantGenerationFailed", id)],
          !.gen_drained = CASE a.type = "VariantGenerated" -> Bump(@, a.arg.id)
                            [] a.type = "VariantGenerationFailed" -> Bump(@, a.arg)
                            [] OTHER -> @,
          !.gen_complete = @ + CountType(r.log, "GenerationComplete")]

\* rx.recv() returned the oldest action: handle_action runs to its end,
\* nested dispatches included; actions sent meanwhile go behind the queue.
Dispatch ==
    /\ main_pc = "recv"
    /\ queue # <<>>
    /\ \E a \in {Head(queue)}, r \in {handle_action(Ctx(app), Head(queue), 1)} :
          /\ app' = r.app
          /\ queue' = Tail(queue) \o r.out
          /\ tasks' = tasks \o r.spawn
          /\ main_pc' = IF r.app.should_quit THEN "shutdown" ELSE "poll"
          /\ hist' = HistAfter(hist, a, app, r)
    /\ UNCHANGED <<rx_alive, handler, startup, sup, lineage>>

\* shutdown_sidecar after the loop, then run() returns and rx is dropped.
MainShutdown ==
    /\ main_pc = "shutdown"
    /\ sup.pc # "hung"
    /\ \E post \in PostResults(sup), wait \in TryWaitResults(sup) :
          /\ sup' = IF app.sidecar_manager THEN Manager_shutdown(sup, post, wait) ELSE sup
          /\ IF sup'.pc = "hung"
             THEN UNCHANGED <<main_pc, rx_alive, queue>>
             ELSE /\ main_pc' = "returned"
                  /\ rx_alive' = FALSE
                  /\ queue' = <<>>
    /\ UNCHANGED <<app, tasks, handler, startup, hist, lineage>>

\* terminal.draw failed: run() returns the error through `?`, without
\* shutdown_sidecar, and rx is dropped.
MainAbort ==
    /\ main_pc = "poll"
    /\ main_pc' = "returned"
    /\ rx_alive' = FALSE
    /\ queue' = <<>>
    /\ UNCHANGED <<app, tasks, handler, startup, hist, sup, lineage>>

\* main returns: the App and the runtime are dropped, which drops every
\* task and a SidecarManager wherever it is.
ProcessExit ==
    /\ main_pc = "returned"
    /\ main_pc' = "terminated"
    /\ sup' = IF ~sup.dropped THEN Manager_drop(sup) ELSE sup
    /\ tasks' = <<>>
    /\ handler' = [handler EXCEPT !.alive = FALSE]
    /\ startup' = [startup EXCEPT !.pc = "finished"]
    /\ UNCHANGED <<app, queue, rx_alive, hist, lineage>>

\* ------------------------------------------------- sidecar startup task
\* manager.start() up to the spawn: a port is found and the child spawned,
\* or one of the two fails and start() returns the error.
StartupSpawn ==
    /\ Running /\ startup.pc = "spawned"
    /\ \E outcome \in SpawnOutcomes :
          /\ sup' = IF outcome = "spawned" THEN Manager_start(sup, outcome)
                    ELSE Manager_drop(Manager_start(sup, outcome))
          /\ startup' = IF outcome = "spawned" THEN [startup EXCEPT !.pc = "waiting"]
                        ELSE [pc |-> "finished", chan |-> "err"]
          /\ queue' = IF outcome = "spawned" THEN queue
                      ELSE Deliver(queue, <<Act("SetStatus", "SidecarFailed")>>)
    /\ UNCHANGED <<app, rx_alive, main_pc, tasks, handler, hist, lineage>>

\* wait_for_healthy returned Ok: the manager and the client go through the
\* oneshot channel, "Sidecar ready" through the bus.
StartupHealthy ==
    /\ Running /\ startup.pc = "waiting"
    /\ sup' = [sup EXCEPT !.proc = "healthy", !.pc = "idle", !.result = "ok"]
    /\ startup' = [pc |-> "finished", chan |-> "ok"]
    /\ queue' = Deliver(queue, <<Act("SetStatus", "SidecarReady")>>)
    /\ UNCHANGED <<app, rx_alive, main_pc, tasks, handler, hist, lineage>>

\* wait_for_healthy returned the deadline error: the error goes through the
\* oneshot channel and the manager is dropped at the end of the task.
StartupFailed ==
    /\ Running /\ startup.pc = "waiting"
    /\ sup' = Manager_drop([sup EXCEPT !.result = "timeout"])
    /\ startup' = [pc |-> "finished", chan |-> "err"]
    /\ queue' = Deliver(queue, <<Act("SetStatus", "SidecarFailed")>>)
    /\ UNCHANGED <<app, rx_alive, main_pc, tasks, handler, hist, lineage>>

\* ------------------------------------------------------ background tasks
RemoveAt(s, i) == SubSeq(s, 1, i - 1) \o SubSeq(s, i + 1, Len(s))

\* A task ends after sending its last actions.
TaskEnds(i, actions) ==
    /\ tasks' = RemoveAt(tasks, i)
    /\ queue' = Deliver(queue, actions)

TaskFrame == UNCHANGED <<app, rx_alive, main_pc, handler, startup, sup, lineage>>

\* analyze_project answered: the profile, or an error.
AnalyzeDone ==
    /\ Running
    /\ \E i \in 1..Len(tasks) :
          /\ tasks[i].kind = "analyze"
          /\ \E ok \in BOOLEAN :
                TaskEnds(i, IF ok
                            THEN <<Act("ProjectAnalyzed", 0), Act("SetStatus", "Analyzed")>>
                            ELSE <<Act("ProjectAnalysisFailed", 0),
                                   Act("SetStatus", "AnalysisFailed")>>)
    /\ UNCHANGED hist
    /\ TaskFrame

\* The four search queries of spawn_search_papers.
NumQueries == 4

\* The search task starts: the first SearchQueryStarted is sent.
SearchStart ==
    /\ Running
    /\ \E i \in 1..Len(tasks) :
          /\ tasks[i].kind = "search" /\ tasks[i].pc = "start"
          /\ tasks' = [tasks EXCEPT ![i].pc = "call", ![i].unit = 0]
          /\ queue' = Deliver(queue, <<Act("SearchQueryStarted", <<0, NumQueries>>)>>)
    /\ UNCHANGED hist
    /\ TaskFrame

\* The papers of one search answer: fresh ids, each with or without a
\* retrievable source (a PDF URL or a DOI).
PaperBatches(made) ==
    {<<>>} \cup
    UNION {{[i \in 1..n |-> [id |-> made + i, has_source |-> src[i]]] :
               src \in [1..n -> BOOLEAN]} : n \in 1..(MaxPapers - made)}

\* search_papers answered for query tasks[i].unit: a non-empty answer is
\* sent as PapersFound, an error is only logged; then the next query starts
\* or, after the last one, ResearchComplete is sent.
SearchResponse ==
    /\ Running
    /\ \E i \in 1..Len(tasks) :
          /\ tasks[i].kind = "search" /\ tasks[i].pc = "call"
          /\ \E papers \in PaperBatches(hist.papers_made) :
                LET found == IF papers = <<>> THEN <<>>
                             ELSE <<Act("PapersFound", papers)>>
                    q == tasks[i].unit
                IN /\ hist' = [hist EXCEPT !.papers_made = @ + Len(papers)]
                   /\ IF q + 1 < NumQueries
                      THEN /\ tasks' = [tasks EXCEPT ![i].unit = q + 1]
                           /\ queue' = Deliver(queue, found \o
                                  <<Act("SearchQueryStarted", <<q + 1, NumQueries>>)>>)
                      ELSE TaskEnds(i, found \o <<Act("ResearchComplete", 0)>>)
    /\ TaskFrame

\* An extraction task starts: ExtractionStarted is sent and the request to
\* extract-technique goes out.
ExtractStart ==
    /\ Running
    /\ \E i \in 1..Len(tasks) :
          /\ tasks[i].kind = "extract" /\ tasks[i].pc = "start"
          /\ tasks' = [tasks EXCEPT ![i].pc = "call"]
          /\ queue' = Deliver(queue, <<Act("ExtractionStarted", tasks[i].unit)>>)
          /\ hist' = [hist EXCEPT !.ext_calls = Bump(@, tasks[i].unit)]
    /\ TaskFrame

\* The technique card the collaborator answers with.
TechniqueCards(paper_id) ==
    {[paper_id |-> paper_id, relevance_score |-> score, selected |-> sel] :
        score \in 1..MaxScore, sel \in BOOLEAN}

\* extract_technique answered: the card, or an error.
ExtractDone ==
    /\ Running
    /\ \E i \in 1..Len(tasks) :
          /\ tasks[i].kind = "extract" /\ tasks[i].pc = "call"
          /\ \/ \E card \in TechniqueCards(tasks[i].unit) :
                   TaskEnds(i, <<Act("TechniqueExtracted", card)>>)
             \/ TaskEnds(i, <<Act("TechniqueExtractionFailed", tasks[i].unit)>>)
          /\ hist' = [hist EXCEPT !.ext_sent = Bump(@, tasks[i].unit)]
    /\ TaskFrame

\* generate_variant answered: success (the Ready variant is rebuilt from the
\* technique), success = false, or an error.
GenerateDone ==
    /\ Running
    /\ \E i \in 1..Len(tasks) :
          /\ tasks[i].kind = "generate"
          /\ \E ok \in BOOLEAN :
                TaskEnds(i, IF ok
                            THEN <<Act("VariantGenerated",
                                       [Variant_from_technique(tasks[i].unit,
                                                               tasks[i].technique)
                                          EXCEPT !.status = "Ready"])>>
                            ELSE <<Act("VariantGenerationFailed", tasks[i].variant_id)>>)
          /\ hist' = [hist EXCEPT !.gen_calls = Bump(@, tasks[i].unit),
                                  !.gen_sent = Bump(@, tasks[i].unit)]
    /\ TaskFrame

Updates(branches) == [i \in 1..Len(branches) |-> Act("BenchmarkUpdated", branches[i])]

\* run_benchmark answered: one BenchmarkUpdated per branch, or an error.
BenchExecDone ==
    /\ Running
    /\ \E i \in 1..Len(tasks) :
          /\ tasks[i].kind = "bench_exec"
          /\ \E ok \in BOOLEAN :
                TaskEnds(i, IF ok THEN Updates(tasks[i].branches)
                            ELSE <<Act("SetStatus", "BenchmarkFailed")>>)
    /\ UNCHANGED hist
    /\ TaskFrame

\* llm_judge answered: either way BenchmarkComplete is sent last.
BenchJudgeDone ==
    /\ Running
    /\ \E i \in 1..Len(tasks) :
          /\ tasks[i].kind = "bench_judge"
          /\ \E ok \in BOOLEAN :
                TaskEnds(i, (IF ok THEN Updates(tasks[i].branches)
                             ELSE <<Act("SetStatus", "JudgeFailed")>>)
                            \o <<Act("BenchmarkComplete", 0)>>)
    /\ UNCHANGED hist
    /\ TaskFrame

\* ------------------------------------------------------------------ Spec
\* The pipeline run: the user submits the form and then presses Right to go
\* from phase to phase; when each key is pressed is free.  No interval tick.
PipelineScript == [i \in 1..MaxEvents |-> IF i = 1 THEN "CtrlEnter" ELSE "Right"]

Init == InitWith(PipelineScript, 0)

Next ==
    \/ HandlerKey
    \/ Poll
    \/ Dispatch
    \/ StartupSpawn
    \/ StartupHealthy
    \/ StartupFailed
    \/ AnalyzeDone
    \/ SearchStart
    \/ SearchResponse
    \/ ExtractStart
    \/ ExtractDone
    \/ GenerateDone
    \/ BenchExecDone
    \/ BenchJudgeDone

Spec == Init /\ [][Next]_vars

\* ----------------------------------------------------- fan-out job claims
ExtUnits == Range(hist.ext_units)

\* Every unit of the extraction job has had its terminal report drained.
ExtAllReported ==
    hist.ext_jobs > 0 /\ \A id \in ExtUnits : hist.ext_drained[id] >= 1

\* Every unit of the generation job has had its terminal report drained.
GenAllReported ==
    hist.gen_jobs > 0 /\ \A id \in Range(hist.gen_ids) : hist.gen_drained[id] >= 1

\* The reducer is about to drain the oldest action.
AboutToDispatch == main_pc = "recv" /\ queue # <<>>

\* C1: once the terminal reports of all N units of a fan-out job have been
\* processed, in whatever order, the job-complete action has been dispatched
\* exactly once, and it is never dispatched a second time.
JobCompleteExactlyOnce ==
    /\ hist.ext_complete <= 1
    /\ hist.gen_complete <= 1
    /\ ExtAllReported => hist.ext_complete = 1
    /\ GenAllReported => hist.gen_complete = 1

\* C2: after the last unit's terminal report has been processed the job's
\* in-progress flag is false, whatever was processed in between.
JobEndsWithLastReport ==
    /\ ExtAllReported => ~app.technique_cards.extracting
    /\ GenAllReported => ~app.variant_builder.generating

ResultTypes ==
    {"ProjectAnalyzed", "ProjectAnalysisFailed", "PapersFound", "ResearchComplete",
     "ResearchFailed", "TechniqueExtracted", "TechniqueExtractionFailed",
     "VariantGenerated", "VariantGenerationFailed", "BenchmarkComplete"}

\* The phase whose component owns the state a result action reports on.
OwnerPhase(type) ==
    CASE type \in {"ProjectAnalyzed", "ProjectAnalysisFailed"} -> "ProjectIntake"
      [] type \in {"PapersFound", "ResearchComplete", "ResearchFailed"} ->
            "ResearchDiscovery"
      [] type \in {"TechniqueExtracted", "TechniqueExtractionFailed"} ->
            "TechniqueSelection"
      [] type \in {"VariantGenerated", "VariantGenerationFailed"} -> "VariantGeneration"
      [] OTHER -> "Benchmarking"

\* C3: every asynchronous result action the reducer drains is forwarded to
\* the handler of the phase component that owns the state it reports on,
\* whichever phase is active.
NoResultDropped ==
    (AboutToDispatch /\ Head(queue).type \in ResultTypes) =>
        \E f \in Range(handle_action(Ctx(app), Head(queue), 1).forwarded) :
            f.type = Head(queue).type /\ f.to = OwnerPhase(Head(queue).type)

\* The application state proper: the App without the receiving end of the
\* startup channel, which is the means of a delivery and not its content.
AppState(a) == [a EXCEPT !.sidecar_startup_rx = FALSE]

\* C4: the application state, the availability of the collaborator client
\* included, changes only in the dispatch of an action, to what
\* handle_action makes of the state and the action.
StateChangesOnlyInDispatch ==
    [][\/ AppState(app') = AppState(app)
       \/ /\ AboutToDispatch
          /\ app' = handle_action(Ctx(app), Head(queue), 1).app]_vars

\* C7: the extraction completion test says "complete" exactly when every unit
\* of the job has had its terminal report processed.
CompletionFromUnits ==
    hist.ext_jobs > 0 =>
        (ExtractionAllDone(app.technique_cards) <=> ExtAllReported)

PaperOf(id) ==
    CHOOSE p \in Range(app.research_explorer.papers) : p.id = id

TasksOf(kind, unit) ==
    {i \in 1..Len(tasks) : tasks[i].kind = kind /\ tasks[i].unit = unit}

\* Calls made and terminal actions sent by each unit, against its task.
UnitAccounting ==
    /\ \A id \in ExtUnits :
          LET t == TasksOf("extract", id) IN
          IF ~PaperOf(id).has_source
          THEN t = {} /\ hist.ext_calls[id] = 0 /\ hist.ext_sent[id] = 1
          ELSE \/ /\ t = {} /\ hist.ext_calls[id] = 1 /\ hist.ext_sent[id] = 1
               \/ /\ Cardinality(t) = 1
                  /\ hist.ext_sent[id] = 0
                  /\ hist.ext_calls[id] = (IF \E i \in t : tasks[i].pc = "call"
                                           THEN 1 ELSE 0)
    /\ \A u \in Range(hist.gen_units) :
          LET t == TasksOf("generate", u) IN
          \/ t = {} /\ hist.gen_calls[u] = 1 /\ hist.gen_sent[u] = 1
          \/ Cardinality(t) = 1 /\ hist.gen_calls[u] = 0 /\ hist.gen_sent[u] = 0

\* A step changes or ends at most one task, or spawns tasks behind the
\* existing ones.
SiblingsUntouched ==
    \/ /\ Len(tasks') >= Len(tasks)
       /\ Cardinality({i \in 1..Len(tasks) : tasks'[i] # tasks[i]}) <= 1
    \/ \E i \in 1..Len(tasks) : tasks' = RemoveAt(tasks, i)

\* C8: every unit of a fan-out job sends exactly one terminal action and
\* makes at most one remote call: none for a paper with no PDF URL and no
\* DOI, one for every other unit; and no task touches a sibling.
OneReportPerUnit == []UnitAccounting /\ [][SiblingsUntouched]_vars

\* A unit of each kind has reported: a paper without a source, a paper whose
\* call was answered, and a generation unit.
OneReportPerUnitWitness ==
    /\ \E id \in ExtUnits : ~PaperOf(id).has_source
    /\ \E id \in ExtUnits : PaperOf(id).has_source /\ hist.ext_sent[id] = 1
    /\ \E u \in Range(hist.gen_units) : hist.gen_sent[u] = 1

\* C9: when the extraction job over N papers has completed, the techniques
\* are as many as the success reports, the errors as many as the failure
\* reports, and the done counter is N.
ExtractionCounts ==
    hist.ext_complete >= 1 =>
        /\ Len(app.technique_cards.techniques) = hist.ext_ok
        /\ Len(app.technique_cards.errors) = hist.ext_err
        /\ app.technique_cards.progress = <<Len(hist.ext_units), Len(hist.ext_units)>>

\* An extraction over two papers completed with one success and one failure.
ExtractionCountsWitness ==
    /\ hist.ext_complete = 1
    /\ hist.ext_ok >= 1
    /\ hist.ext_err >= 1

\* ---------------------------------------------------------------- UiSpec
\* A run at the keyboard: the user submits the form, opens the merge dialog,
\* confirms it and quits, while the interval ticks; when each happens is
\* free.
UiScripts == {<<"CtrlEnter", "m", "Enter", "q">>}

UiInit == \E script \in UiScripts : InitWith(script, MaxTicks)

UiNext ==
    \/ HandlerTick
    \/ HandlerKey
    \/ Poll
    \/ Dispatch
    \/ MainShutdown
    \/ MainAbort
    \/ ProcessExit
    \/ StartupSpawn
    \/ StartupHealthy
    \/ StartupFailed
    \/ AnalyzeDone
    \/ SearchStart
    \/ SearchResponse

UiSpec == UiInit /\ [][UiNext]_vars

\* C5: every chained action a component's handler returns for the action
\* being dispatched, the overlays' handlers included, is dispatched in the
\* same dispatch.
ChainedAlwaysDispatched ==
    AboutToDispatch => handle_action(Ctx(app), Head(queue), 1).dropped = <<>>

SameAction(a, b) == a.type = b.type /\ a.arg = b.arg

IsPrefix(p, q) ==
    Len(p) <= Len(q) /\ \A i \in 1..Len(p) : SameAction(p[i], q[i])

\* A step of the bus: the reducer takes the oldest action and its dispatch,
\* follow-ups included, is over before anything else is taken; a producer's
\* send goes behind everything waiting; a Tick is sent and waits like any
\* other action.
FifoStep ==
    \/ ~rx_alive'
    \/ /\ main_pc = "recv" /\ main_pc' # "recv"
       /\ queue # <<>>
       /\ app' = handle_action(Ctx(app), Head(queue), 1).app
       /\ IsPrefix(Tail(queue), queue')
       /\ Len(queue') = Len(queue) - 1 + Len(handle_action(Ctx(app), Head(queue), 1).out)
    \/ /\ ~(main_pc = "recv" /\ main_pc' # "recv")
       /\ IsPrefix(queue, queue')
       /\ handler'.ticks < handler.ticks =>
             /\ Len(queue') = Len(queue) + 1
             /\ queue'[Len(queue')].type = "Tick"

\* C6: actions are processed in the order they were enqueued, each dispatch
\* finishing before the next begins; Ticks are neither prioritised nor
\* reordered nor coalesced; one producer's actions keep their send order.
FifoOrder == [][FifoStep]_vars

\* Two Ticks were processed one by one while a search was running.
FifoOrderWitness == app.research_explorer.spinner_tick >= 2

\* --------------------------------------------------------------- SupSpec
\* The supervisor alone, driven by a caller that starts it, shuts it down
\* and drops it in any order, with a process that becomes healthy or exits
\* when it likes.
SupInit ==
    /\ app = App_new(0, <<>>)
    /\ queue = <<>>
    /\ rx_alive = TRUE
    /\ main_pc = "poll"
    /\ tasks = <<>>
    /\ handler = [alive |-> FALSE, script |-> <<>>, events |-> 0, ticks |-> 0]
    /\ startup = [pc |-> "finished", chan |-> "empty"]
    /\ hist = HistInit
    /\ sup = SidecarManager_new
    /\ lineage = NoLineage

SupFrame == UNCHANGED <<app, queue, rx_alive, main_pc, tasks, handler, startup, hist, lineage>>

SupStart ==
    /\ sup.pc = "idle" /\ ~sup.dropped
    /\ sup.child \/ sup.spawned < MaxStarts
    /\ \E outcome \in SpawnOutcomes : sup' = Manager_start(sup, outcome)
    /\ SupFrame

SupPoll ==
    /\ sup.pc = "polling"
    /\ \E get \in GetResults(sup) : sup' = Manager_poll(sup, get)
    /\ SupFrame

SupShutdown ==
    /\ sup.pc = "idle" /\ ~sup.dropped
    /\ \E post \in PostResults(sup), wait \in TryWaitResults(sup) :
          sup' = Manager_shutdown(sup, post, wait)
    /\ SupFrame

SupDrop ==
    /\ ~sup.dropped
    /\ sup' = Manager_drop(sup)
    /\ SupFrame

SupProcHealthy ==
    /\ sup.proc = "running"
    /\ sup' = [sup EXCEPT !.proc = "healthy"]
    /\ SupFrame

SupProcExit ==
    /\ sup.proc \in {"running", "healthy"}
    /\ sup' = [sup EXCEPT !.proc = "exited"]
    /\ SupFrame

SupNext ==
    \/ SupStart
    \/ SupPoll
    \/ SupShutdown
    \/ SupDrop
    \/ SupProcHealthy
    \/ SupProcExit

SupSpec == SupInit /\ [][SupNext]_vars

\* C10: a Shutdown() on a supervisor that holds a child has performed, in
\* this order, the graceful request, the grace delay and the status check,
\* with a kill after it if the process was still alive, also when the
\* request failed.
ShutdownSequence ==
    (sup.calls # <<>> /\ sup.pc # "hung") =>
        /\ Len(sup.calls) >= 3
        /\ sup.calls[1] = "post_shutdown"
        /\ sup.calls[2] = "sleep"
        /\ sup.calls[3] = "try_wait"
        /\ Len(sup.calls) > 3 => sup.calls[4] = "kill"

\* ------------------------------------------------ supervisor lifecycle
ProcLive(m) == m.proc \in {"running", "healthy"}

\* A step that destroys a supervisor holding a child issues a kill.
KillOnDestroy ==
    (sup'.dropped /\ ~sup.dropped /\ sup.child) =>
        (sup'.kills = sup.kills + 1 /\ ~ProcLive(sup'))

\* At exit no spawned process is live, and one that was spawned has been
\* killed or was found exited by a completed shutdown().
NoOrphanAtExit ==
    main_pc = "terminated" =>
        /\ ~ProcLive(sup)
        /\ sup.spawned > 0 => (sup.kills > 0 \/ sup.calls # <<>>)

\* C11: a supervisor holding a live child that is destroyed without a
\* completed shutdown() has a kill issued to the child, and at application
\* exit no spawned collaborator process is left running unkilled.
NoOrphanProcess == []NoOrphanAtExit /\ [][KillOnDestroy]_vars

\* The application exited while startup was in progress or its result was
\* not picked up: no shutdown() ran and the destruction killed the child.
NoOrphanProcessWitness ==
    /\ main_pc = "terminated"
    /\ sup.spawned > 0
    /\ sup.calls = <<>>
    /\ sup.kills > 0

\* C12: when run() returns through Quit while a supervisor holds the spawned
\* collaborator process, shutdown_sidecar has called shutdown() on it: the
\* graceful request was issued.
QuitCallsShutdown ==
    [][(main_pc = "shutdown" /\ main_pc' = "returned" /\ sup.child /\ app.should_quit) =>
          (sup'.calls # <<>> /\ sup'.calls[1] = "post_shutdown")]_vars

\* C13: start() on a supervisor that holds a child returns the error at
\* once, spawns nothing and leaves the child handle and the port as they
\* were.
StartWhileLive ==
    (is_running(sup) /\ sup.pc = "idle" /\ ~sup.dropped) =>
        \A outcome \in SpawnOutcomes :
            Manager_start(sup, outcome) = [sup EXCEPT !.result = "already_running"]

\* start() was called on a supervisor holding a child.
StartWhileLiveWitness ==
    sup.result = "already_running" /\ is_running(sup) /\ sup.spawned = 1

\* A supervisor whose start() failed at the deadline is not reported as
\* running.
FailedNotRunning ==
    (sup.pc = "idle" /\ sup.result = "timeout") => ~is_running(sup)

\* No supervisor is starting after a shutdown().
NoRestart == sup.calls # <<>> => sup.pc # "polling"

\* C14: the lifecycle has only the transitions NotStarted -> Starting ->
\* Healthy -> ShuttingDown -> Stopped and Starting -> Failed: Failed is
\* terminal and not running, and Starting is not re-entered after Stopped
\* or Failed.
LifecycleOrder == FailedNotRunning /\ NoRestart

Deadline == STARTUP_TIMEOUT_SECS * 1000

FailsAtDeadline ==
    /\ sup.result = "timeout" =>
          (sup.elapsed > Deadline /\ sup.elapsed <= Deadline + HEALTH_POLL_INTERVAL_MS)
    /\ ~(sup.pc = "hung" /\ sup.result = "none")

\* A process is spawned only while none is live.
SpawnsWhenNoneLive == sup'.spawned > sup.spawned => ~ProcLive(sup)

\* A shutdown() that returns leaves no child handle and no live process.
ShutdownReleases ==
    (sup.pc = "idle" /\ ~sup.dropped) =>
        \A post \in PostResults(sup), wait \in TryWaitResults(sup) :
            LET m == Manager_shutdown(sup, post, wait)
            IN  m.pc # "hung" => (~is_running(m) /\ ~ProcLive(m))

\* C17: at most one collaborator process is live at any moment, and after
\* shutdown() completes the supervisor holds no child.
OneProcess == []ShutdownReleases /\ [][SpawnsWhenNoneLive]_vars

\* A second process is live after the first was shut down.
OneProcessWitness ==
    sup.spawned = 2 /\ ProcLive(sup) /\ sup.calls # <<>>

\* --------------------------------------------------------------- NavSpec
\* Runs with navigation: the pipeline run, a run where help is opened after
\* the form was submitted, a run where the user leaves phase 2 and jumps
\* back to it, a run where the user jumps to phase 3 twice, a run where the
\* user goes one phase forward and then back as far as it goes, and a run
\* where the user jumps to phase 4 and goes one phase back.
NavScripts ==
    {PipelineScript, <<"CtrlEnter", "?", "Right">>, <<"CtrlEnter", "Right", "2", "2">>,
     <<"CtrlEnter", "3", "3">>, <<"CtrlEnter", "Right", "Left", "Left", "Left">>,
     <<"CtrlEnter", "4", "Left">>}

NavInit == \E script \in NavScripts : InitWith(script, 0)

NavSpec == NavInit /\ [][Next]_vars

\* The component of the active phase captures text.
TextCapture(a) ==
    a.current_phase = "ProjectIntake" /\ ProjectIntake_wants_input(a.project_intake)

\* C18: while the component of the active phase captures text, processing
\* NextPhase or PrevPhase leaves the active phase unchanged and processing
\* GoToPhase(p) makes p the active phase.
NavSuppressedInTextCapture ==
    /\ (AboutToDispatch /\ TextCapture(app)
          /\ Head(queue).type \in {"NextPhase", "PrevPhase"}) =>
             handle_action(Ctx(app), Head(queue), 1).app.current_phase = app.current_phase
    /\ TextCapture(app) =>
          \A p \in PhaseSet :
             handle_action(Ctx(app), Act("GoToPhase", p), 1).app.current_phase = p

JobsStarted(phase) ==
    CASE phase = "ResearchDiscovery" -> hist.search_jobs
      [] phase = "TechniqueSelection" -> hist.ext_jobs
      [] phase = "VariantGeneration" -> hist.gen_jobs
      [] phase = "Benchmarking" -> hist.bench_jobs
      [] OTHER -> 0

StartJobType(phase) ==
    CASE phase = "ResearchDiscovery" -> "StartResearch"
      [] phase = "TechniqueSelection" -> "StartExtraction"
      [] phase = "VariantGeneration" -> "StartGeneration"
      [] phase = "Benchmarking" -> "StartBenchmark"
      [] OTHER -> "None"

\* C19: a dispatch that enters, from another phase, a phase whose job has
\* been started before emits no start-job action of that phase.
NoRetriggerOnRevisit ==
    AboutToDispatch =>
        \A r \in {handle_action(Ctx(app), Head(queue), 1)} :
            (r.app.current_phase # app.current_phase
                /\ JobsStarted(r.app.current_phase) > 0) =>
               \A i \in 1..Len(r.out) :
                  r.out[i].type # StartJobType(r.app.current_phase)

TasksOfKind(kind) == {i \in 1..Len(tasks) : tasks[i].kind = kind}

\* A start-job action processed while its job is in progress spawns nothing
\* and leaves the job's units as they are.
StartInProgressIsNoOp ==
    /\ app.research_explorer.searching =>
          \A r \in {handle_action(Ctx(app), Act("StartResearch", 0), 1)} :
             /\ r.spawn = <<>>
             /\ r.app.research_explorer.papers = app.research_explorer.papers
    /\ app.technique_cards.extracting =>
          \A r \in {handle_action(Ctx(app),
                                  Act("StartExtraction", app.research_explorer.papers), 1)} :
             /\ r.spawn = <<>>
             /\ r.app.technique_cards.progress = app.technique_cards.progress
             /\ r.app.technique_cards.techniques = app.technique_cards.techniques
    /\ app.variant_builder.generating =>
          \A r \in {handle_action(Ctx(app), Act("StartGeneration", 0), 1)} :
             /\ r.spawn = <<>>
             /\ r.app.variant_builder.variants = app.variant_builder.variants
    /\ app.benchmark_dashboard.benchmarking =>
          \A r \in {handle_action(Ctx(app), Act("StartBenchmark", 0), 1)} :
             /\ r.spawn = <<>>
             /\ r.app.benchmark_dashboard.variants = app.benchmark_dashboard.variants

\* The tasks of a job exist once: one search task, one task of each
\* benchmark kind, one task per extraction and generation unit.
JobTasksOnce ==
    /\ \A kind \in {"search", "bench_exec", "bench_judge"} :
          Cardinality(TasksOfKind(kind)) <= 1
    /\ \A id \in 0..MaxPapers :
          /\ Cardinality(TasksOf("extract", id)) <= 1
          /\ Cardinality(TasksOf("generate", id)) <= 1

\* C20: a start-job action processed while the same job is in progress
\* spawns no task and creates no unit, so a phase entered twice before the
\* first start-job action was processed has its tasks spawned once.
StartJobOnce == StartInProgressIsNoOp /\ JobTasksOnce

\* Phase 3 was entered twice in a row: the second of the two
\* StartExtraction actions is about to be processed while the extraction the
\* first one started is in progress.
StartJobOnceWitness ==
    /\ AboutToDispatch
    /\ Head(queue).type = "StartExtraction"
    /\ app.technique_cards.extracting
    /\ hist.ext_jobs = 1
    /\ hist.ext_units # <<>>

\* ------------------------------------------------------ phase navigation
NoOverlay(a) == ~a.help.visible /\ ~a.merge_dialog.visible

\* The phase one step forward (d = 1) or back (d = -1) in the order of
\* Phases, the phase itself at the end of the order.
StepFrom(p, d) ==
    IF Phase_index(p) + d \in 1..Len(Phases) THEN Phases[Phase_index(p) + d] ELSE p

\* C21: with no overlay visible and the phase component not capturing text,
\* NextPhase moves the active phase one step forward and PrevPhase one step
\* back in the order of the five phases; NextPhase at Benchmarking and
\* PrevPhase at ProjectIntake leave the phase unchanged, and
\* prev(next(p)) = p wherever next(p) exists.
PhaseStep ==
    /\ \A p \in PhaseSet :
          /\ (Phase_next(p) = "None") <=> (p = "Benchmarking")
          /\ (Phase_prev(p) = "None") <=> (p = "ProjectIntake")
          /\ Phase_next(p) # "None" =>
                (Phase_next(p) = StepFrom(p, 1) /\ Phase_prev(Phase_next(p)) = p)
          /\ Phase_prev(p) # "None" => Phase_prev(p) = StepFrom(p, -1)
    /\ (NoOverlay(app) /\ ~TextCapture(app)) =>
          /\ handle_action(Ctx(app), Act("NextPhase", 0), 1).app.current_phase
                = StepFrom(app.current_phase, 1)
          /\ handle_action(Ctx(app), Act("PrevPhase", 0), 1).app.current_phase
                = StepFrom(app.current_phase, -1)

\* The user went forward to phase 3 and back to phase 1, and PrevPhase is
\* about to be processed at the first phase.
PhaseStepWitness ==
    /\ AboutToDispatch
    /\ Head(queue).type = "PrevPhase"
    /\ app.current_phase = "ProjectIntake"
    /\ NoOverlay(app) /\ ~TextCapture(app)
    /\ hist.ext_jobs > 0

\* ------------------------------------------------------------ DialogSpec
\* Runs at the merge dialog: the user submits the form, opens the dialog,
\* moves the focus down to the blend slider and steps it three times to the
\* right or to the left.
DialogScripts ==
    {<<"CtrlEnter", "m", "Down", "Down", "Right", "Right", "Right">>,
     <<"CtrlEnter", "m", "Down", "Down", "Left", "Left", "Left">>}

DialogInit == \E script \in DialogScripts : InitWith(script, 0)

DialogNext ==
    \/ HandlerKey
    \/ Poll
    \/ Dispatch
    \/ StartupSpawn
    \/ StartupHealthy
    \/ StartupFailed
    \/ AnalyzeDone
    \/ SearchStart
    \/ SearchResponse

DialogSpec == DialogInit /\ [][DialogNext]_vars

BlendRatio_position(b) == CHOOSE i \in 1..Len(BlendRatios) : BlendRatios[i] = b

\* The value at the inverse position of the scale: positions i and 4 - i,
\* counted from 0.
OrdinalInverse(b) == BlendRatios[Len(BlendRatios) + 1 - BlendRatio_position(b)]

\* C22: in the merge dialog blend_b is the ordinal inverse of blend_a on
\* the 5-step scale after any sequence of slider steps, so that the two
\* percentages sum to 100; one step right from Half gives ThreeQuarter and
\* Quarter.
BlendInverse ==
    /\ app.merge_dialog.blend_b = OrdinalInverse(app.merge_dialog.blend_a)
    /\ BlendRatio_as_percent(app.merge_dialog.blend_a)
          + BlendRatio_as_percent(app.merge_dialog.blend_b) = 100

\* The value d positions further on the scale, the end of the scale when
\* there is no such position.
BlendStep(b, d) ==
    LET i == BlendRatio_position(b) + d
    IN  IF i < 1 THEN BlendRatios[1]
        ELSE IF i > Len(BlendRatios) THEN BlendRatios[Len(BlendRatios)]
        ELSE BlendRatios[i]

SliderFocused(md) == md.visible /\ md.focused = "BlendSlider"

\* C23: BlendRatio next and prev are single ordinal steps on Zero < Quarter
\* < Half < ThreeQuarter < Full that saturate at the ends: next(Full) =
\* Full, prev(Zero) = Zero, four times next from Zero is Full, next(prev(x))
\* = x for x other than Zero and prev(next(x)) = x for x other than Full;
\* and these are the steps the slider of the merge dialog takes.
BlendRatioSteps ==
    /\ \A x \in Range(BlendRatios) :
          /\ BlendRatio_next(x) = BlendStep(x, 1)
          /\ BlendRatio_prev(x) = BlendStep(x, -1)
          /\ x # "Zero" => BlendRatio_next(BlendRatio_prev(x)) = x
          /\ x # "Full" => BlendRatio_prev(BlendRatio_next(x)) = x
    /\ BlendRatio_next("Full") = "Full"
    /\ BlendRatio_prev("Zero") = "Zero"
    /\ BlendRatio_next(BlendRatio_next(BlendRatio_next(BlendRatio_next("Zero")))) = "Full"
    /\ SliderFocused(app.merge_dialog) =>
          /\ MergeDialog_handle_action(app.merge_dialog, Act("NextPhase", 0)).st.blend_a
                = BlendStep(app.merge_dialog.blend_a, 1)
          /\ MergeDialog_handle_action(app.merge_dialog, Act("PrevPhase", 0)).st.blend_a
                = BlendStep(app.merge_dialog.blend_a, -1)

\* The slider stands at Full after two steps to the right and a third step
\* to the right is about to be processed.
BlendRatioStepsWitness ==
    /\ AboutToDispatch
    /\ Head(queue).type = "NextPhase"
    /\ SliderFocused(app.merge_dialog)
    /\ app.merge_dialog.blend_a = "Full"

\* ------------------------------------------------------- variant status
\* The variant of the builder that was created with this id.
VariantOf(id) ==
    app.variant_builder.variants[FirstWithId(app.variant_builder.variants, id)]

\* C24: every variant created by a generation request is created Pending
\* and stays Pending until the terminal report of its unit is processed;
\* from then on it is Ready or Failed.
VariantStatusOnce ==
    \A id \in Range(hist.gen_ids) :
        /\ HasVariant(app.variant_builder.variants, id)
        /\ hist.gen_drained[id] = 0 => VariantOf(id).status = "Pending"
        /\ hist.gen_drained[id] >= 1 => VariantOf(id).status \in {"Ready", "Failed"}

\* ------------------------------------------------------ failure reports
\* The results of the extraction units: the cards without the user's
\* selection marks.
CardResults(tc) ==
    [i \in 1..Len(tc.techniques) |->
        <<tc.techniques[i].paper_id, tc.techniques[i].relevance_score>>]

\* What the dispatch of a VariantGenerationFailed for id may change.
VariantFailureFrame(id, r) ==
    /\ Len(r.app.variant_builder.variants) = Len(app.variant_builder.variants)
    /\ \A i \in 1..Len(app.variant_builder.variants) :
          LET v == app.variant_builder.variants[i]
              w == r.app.variant_builder.variants[i]
          IN  IF v.id = id
              THEN w \in {v, [v EXCEPT !.status = "Failed"]}
              ELSE w = v
    /\ r.app.technique_cards = app.technique_cards
    /\ r.app.research_explorer = app.research_explorer
    /\ r.app.benchmark_dashboard = app.benchmark_dashboard
    /\ r.spawn = <<>>

\* What the dispatch of a TechniqueExtractionFailed for id may change.
ExtractionFailureFrame(id, r) ==
    /\ CardResults(r.app.technique_cards) = CardResults(app.technique_cards)
    /\ r.app.technique_cards.errors
          \in {app.technique_cards.errors, Append(app.technique_cards.errors, id)}
    /\ r.app.technique_cards.progress
          \in {app.technique_cards.progress,
               <<app.technique_cards.progress[1] + 1, app.technique_cards.progress[2]>>}
    /\ r.app.variant_builder = app.variant_builder
    /\ r.app.research_explorer = app.research_explorer
    /\ r.app.benchmark_dashboard = app.benchmark_dashboard
    /\ r.spawn = <<>>

\* The two handlers' failure arms, and the dispatch of the failure report
\* that is next on the bus.
FailureFrame ==
    /\ \A id \in 0..MaxPapers :
          /\ TechniqueCards_handle_action(app.technique_cards,
                                          Act("TechniqueExtractionFailed", id)).st
                = [app.technique_cards EXCEPT !.progress = <<@[1] + 1, @[2]>>,
                                              !.errors = Append(@, id)]
          /\ VariantFailureFrame(id,
                [Ctx(app) EXCEPT !.app.variant_builder =
                    VariantBuilder_handle_action(app.variant_builder,
                                                 Act("VariantGenerationFailed", id)).st])
    /\ AboutToDispatch =>
          \A a \in {Head(queue)}, r \in {handle_action(Ctx(app), Head(queue), 1)} :
             /\ a.type = "VariantGenerationFailed" => VariantFailureFrame(a.arg, r)
             /\ a.type = "TechniqueExtractionFailed" => ExtractionFailureFrame(a.arg, r)

\* The dispatch of a failure report leaves every task as it is.
FailureKeepsTasks ==
    (AboutToDispatch /\ main_pc' # "recv"
        /\ Head(queue).type \in {"VariantGenerationFailed", "TechniqueExtractionFailed"})
       => tasks' = tasks

ReducerInit ==
    /\ \E path \in 0..MaxText, description \in DescriptionInputs :
          app = sync_input_mode([App_new(path, description)
                                    EXCEPT !.sidecar_startup_rx = TRUE])
    /\ queue = <<>>
    /\ rx_alive = TRUE
    /\ main_pc = "poll"
    /\ tasks = <<>>
    /\ handler = [alive |-> FALSE, script |-> <<>>, events |-> 0, ticks |-> 0]
    /\ startup = [pc |-> "finished", chan |-> "err"]
    /\ hist = HistInit
    /\ sup = Manager_drop(SidecarManager_new)
    /\ lineage = NoLineage

\* The papers a StartExtraction carries: N papers, N >= 1.
PaperInputs ==
    {[i \in 1..n |-> [id |-> i, has_source |-> TRUE]] : n \in 1..MaxPapers}

\* The start-job action sent on entering a phase.
StartJobInputs(phase) ==
    CASE phase = "ProjectIntake" -> {Act("SubmitForm", 0)}
      [] phase = "ResearchDiscovery" -> {Act("StartResearch", 0)}
      [] phase = "TechniqueSelection" ->
            {Act("StartExtraction", papers) : papers \in PaperInputs}
      [] phase = "VariantGeneration" -> {Act("StartGeneration", 0)}
      [] phase = "Benchmarking" -> {Act("StartBenchmark", 0)}

\* Navigation and text-edit actions.
UiInputs ==
    {Act("GoToPhase", p) : p \in PhaseSet}
        \cup {Act("NextPhase", 0), Act("PrevPhase", 0), Act("CharInput", 0),
              Act("BackspaceInput", 0), Act("SwitchInputField", 0)}

\* tx.send by a producer while the reducer waits with an empty bus.
Feed ==
    /\ main_pc = "poll" /\ queue = <<>>
    /\ handler.events < MaxFeeds
    /\ \E a \in StartJobInputs(app.current_phase) \cup UiInputs :
          queue' = Deliver(queue, <<a>>)
    /\ handler' = [handler EXCEPT !.events = @ + 1]
    /\ UNCHANGED <<app, rx_alive, main_pc, tasks, startup, hist, sup, lineage>>

ReducerNext ==
    \/ Feed
    \/ Poll
    \/ Dispatch

ReducerSpec == ReducerInit /\ [][ReducerNext]_vars

HandlerSent ==
    \/ handler'.ticks < handler.ticks
    \/ /\ handler'.events > handler.events
       /\ map_key(app.input_mode_flag, handler.script[handler.events + 1]).type # "None"

\* A step taken after the receiving end was dropped: nothing is queued, the
\* application state is as it was, and a turn of the event handler that
\* sent an action is its last.
SendAfterDrop ==
    ~rx_alive =>
        /\ queue' = <<>>
        /\ app' = app
        /\ ~rx_alive'
        /\ HandlerSent => ~handler'.alive
        /\ ~handler.alive => (handler'.events = handler.events
                                /\ handler'.ticks = handler.ticks)

\* C27: after the receiving end of the bus is dropped, a send by a
\* background task or by the event handler is discarded and changes no
\* application state, and the event handler's loop stops at its first
\* failed send.
SendsDiscardedAfterDrop == [](~rx_alive => queue = <<>>) /\ [][SendAfterDrop]_vars

\* run() has returned; the event handler has stopped at a failed send while
\* the search task is still sending.
SendsDiscardedAfterDropWitness ==
    /\ main_pc = "returned"
    /\ ~rx_alive
    /\ ~handler.alive
    /\ \E i \in 1..Len(tasks) :
          tasks[i].kind = "search" /\ tasks[i].pc = "call" /\ tasks[i].unit >= 2

\* -------------------------------------------------------- dispatch depth
\* C28: the dispatch of a queued action terminates, and the nesting depth of
\* the dispatch (the action itself, a job-complete action synthesized for
\* it, chained follow-up actions) never exceeds 3.
DispatchDepthBounded ==
    AboutToDispatch =>
        \A r \in {handle_action(Ctx(app), Head(queue), 1)} :
            /\ Len(r.log) >= 1
            /\ \A i \in 1..Len(r.log) : r.log[i].depth \in 1..3

\* The terminal report that completes a job is about to be processed: the
\* report, the job-complete action and its status message nest three deep.
DispatchDepthBoundedWitness ==
    /\ AboutToDispatch
    /\ \E e \in Range(handle_action(Ctx(app), Head(queue), 1).log) :
          e.depth = 3 /\ e.type = "SetStatus"

\* ----------------------------------------------------------- LineageSpec
\* The lineage model alone: leaves are attached and trees are merged in any
\* order.
LineageInit == SupInit

LineageFrame ==
    UNCHANGED <<app, queue, rx_alive, main_pc, tasks, handler, startup, hist, sup>>

Attach ==
    /\ Len(lineage.attached) < MaxLeaves
    /\ \E technique_name \in 1..MaxScore, paper_id \in 1..MaxPapers :
          lineage' = attach(lineage, technique_name, paper_id)
    /\ LineageFrame

Merge ==
    /\ \E i, j \in 1..Len(lineage.forest) :
          /\ i # j
          /\ \E blend_a, blend_b \in Range(BlendRatios) :
                lineage' = merge(lineage, i, j, blend_a, blend_b)
    /\ LineageFrame

LineageNext ==
    \/ Attach
    \/ Merge

LineageSpec == LineageInit /\ [][LineageNext]_vars

\* The leaves of all the trees of the forest.
RECURSIVE ForestLeaves(_)
ForestLeaves(forest) ==
    IF forest = <<>> THEN <<>>
    ELSE flatten(Head(forest)) \o ForestLeaves(Tail(forest))

Occurrences(s, x) == Cardinality({i \in 1..Len(s) : s[i] = x})

RECURSIVE NodeIds(_)
NodeIds(node) ==
    IF node.kind = "Original"
    THEN <<LineageNode_variant_id(node)>>
    ELSE <<LineageNode_variant_id(node)>> \o NodeIds(node.parent_a)
            \o NodeIds(node.parent_b)

\* C29: the lineage trees built by any sequence of attach and merge, when
\* flattened to their leaves, yield exactly the (technique, paper) pairs
\* that were attached: as many leaves as attachments, every pair as often
\* as it was attached, and every leaf in one tree only.
LineageRoundTrip ==
    /\ Len(ForestLeaves(lineage.forest)) = Len(lineage.attached)
    /\ \A pair \in Range(lineage.attached) \cup Range(ForestLeaves(lineage.forest)) :
          Occurrences(ForestLeaves(lineage.forest), pair)
             = Occurrences(lineage.attached, pair)
    /\ \A i \in 1..Len(lineage.forest) :
          \A id \in Range(NodeIds(lineage.forest[i])) :
             /\ Occurrences(NodeIds(lineage.forest[i]), id) = 1
             /\ \A j \in (1..Len(lineage.forest)) \ {i} :
                   id \notin Range(NodeIds(lineage.forest[j]))

\* One tree holds everything: a merge of a merged tree with a leaf, over
\* three attached pairs of which two are equal.
LineageRoundTripWitness ==
    /\ Len(lineage.forest) = 1
    /\ Len(lineage.attached) = MaxLeaves
    /\ lineage.forest[1].kind = "Merged"
    /\ lineage.forest[1].parent_a.kind = "Merged"
    /\ flatten(lineage.forest[1]) = lineage.attached
    /\ Cardinality(Range(lineage.attached)) < Len(lineage.attached)

\* ------------------------------------------------------ auto-trigger
\* C30: every transition that makes a phase active (NextPhase, PrevPhase,
\* GoToPhase, the auto-advance after project analysis) evaluates that
\* phase's auto-trigger predicate and emits the phase's start-job action
\* when the predicate holds and the phase's job has not been started before.
AutoTriggerOnEntry ==
    AboutToDispatch =>
        \A r \in {handle_action(Ctx(app), Head(queue), 1)} :
            (r.app.current_phase # app.current_phase
                /\ JobsStarted(r.app.current_phase) = 0
                /\ AutoTriggerCondition(r.app, r.app.current_phase)) =>
               \E i \in 1..Len(r.out) :
                  r.out[i].type = StartJobType(r.app.current_phase)

\* ------------------------------------------------------ analysis result
\* C31: when a ProjectAnalyzed action is processed, whichever phase is
\* active, the profile is stored in the intake state, analysis is no longer
\* in progress, and the active phase becomes ResearchDiscovery, with
\* StartResearch emitted if no papers are loaded and no search is running.
AnalyzedAdvances ==
    (AboutToDispatch /\ Head(queue).type = "ProjectAnalyzed") =>
        \A r \in {handle_action(Ctx(app), Head(queue), 1)} :
            /\ r.app.project_intake.profile
            /\ ~r.app.project_intake.analyzing
            /\ r.app.current_phase = "ResearchDiscovery"
            /\ (app.research_explorer.papers = <<>> /\ ~app.research_explorer.searching) =>
                  \E i \in 1..Len(r.out) : r.out[i].type = "StartResearch"

\* ------------------------------------------------------- benchmark job
\* C32: BenchmarkComplete is sent, and the benchmarking flag cleared, only
\* after both units of the benchmark job, the execution-benchmark call and
\* the LLM-judge call, have reached a terminal state.
BenchUnitsPending == TasksOfKind("bench_exec") \cup TasksOfKind("bench_judge")

BenchmarkCompleteAfterBoth ==
    (hist.bench_jobs = 1 /\ \E i \in 1..Len(queue) : queue[i].type = "BenchmarkComplete")
        => BenchUnitsPending = {}

\* ---------------------------------------------------------- text input
\* C33: text-input actions (CharInput, BackspaceInput) are only ever
\* processed by the reducer while the application is in Editing input mode.
TextInputOnlyInEditing ==
    (AboutToDispatch /\ Head(queue).type \in {"CharInput", "BackspaceInput"})
        => /\ app.input_mode_flag = "Editing"
           /\ current_input_mode(app) = "Editing"

\* ------------------------------------------------------- MergeOpenSpec
\* The user goes through the pipeline up to VariantGeneration and presses m
\* there: the merge dialog opens over whatever the variant builder holds.
MergeOpenScript == <<"CtrlEnter", "Right", "Right", "m">>

MergeOpenInit == InitWith(MergeOpenScript, 0)

MergeOpenNext ==
    \/ HandlerKey
    \/ Poll
    \/ Dispatch
    \/ StartupSpawn
    \/ StartupHealthy
    \/ StartupFailed
    \/ AnalyzeDone
    \/ SearchStart
    \/ SearchResponse
    \/ ExtractStart
    \/ ExtractDone
    \/ GenerateDone

MergeOpenSpec == MergeOpenInit /\ [][MergeOpenNext]_vars

\* C34: whenever the merge dialog is visible, its list of available
\* variants contains every variant currently held by the variant builder.
VariantIds(variants) == {variants[i].id : i \in 1..Len(variants)}

DialogListsVariants ==
    app.merge_dialog.visible =>
        VariantIds(app.variant_builder.variants)
            \subseteq Range(app.merge_dialog.available_variants)

\* ------------------------------------------------------------ CardsSpec
\* The reducer in TechniqueSelection with the extraction of a batch of
\* papers under way: the extraction tasks' cards and the user's keys are put
\* on the bus one at a time, each when the reducer has processed everything
\* before it.  Cards arrive unselected, with any score; Enter toggles the
\* card under the cursor and Down moves the cursor.
CardsTotals == {2, MaxCards}

CardsInit ==
    /\ \E total \in CardsTotals :
          app = sync_input_mode(
                  [App_new(1, <<"c">>)
                     EXCEPT !.current_phase = "TechniqueSelection",
                            !.status_bar.current_phase = "TechniqueSelection",
                            !.sidecar_manager = TRUE,
                            !.sidecar_client = TRUE,
                            !.user_description = <<"c">>,
                            !.project_intake.profile = TRUE,
                            !.research_explorer.papers =
                                [i \in 1..total |-> [id |-> i, has_source |-> TRUE]],
                            !.technique_cards.extracting = TRUE,
                            !.technique_cards.extraction_attempted = TRUE,
                            !.technique_cards.progress = <<0, total>>])
    /\ queue = <<>>
    /\ rx_alive = TRUE
    /\ main_pc = "poll"
    /\ tasks = <<>>
    /\ handler = [alive |-> TRUE, script |-> <<>>, events |-> 0, ticks |-> 0]
    /\ startup = [pc |-> "finished", chan |-> "taken"]
    /\ hist = HistInit
    /\ sup = SidecarManager_new
    /\ lineage = NoLineage

CardInputs ==
    {Act("TechniqueExtracted",
         [paper_id |-> 1, relevance_score |-> score, selected |-> FALSE]) :
        score \in 0..MaxScore}

\* One more card from an extraction task, or one more key from the user.
CardsFeed ==
    /\ main_pc = "poll" /\ queue = <<>>
    /\ \/ /\ app.technique_cards.progress[1] < app.technique_cards.progress[2]
          /\ \E a \in CardInputs : queue' = Deliver(queue, <<a>>)
          /\ UNCHANGED handler
       \/ /\ handler.events < MaxFeeds
          /\ \E key \in {"Enter", "Down"} :
                queue' = Deliver(queue, <<map_key(app.input_mode_flag, key)>>)
          /\ handler' = [handler EXCEPT !.events = @ + 1]
    /\ UNCHANGED <<app, rx_alive, main_pc, tasks, startup, hist, sup, lineage>>

CardsNext ==
    \/ CardsFeed
    \/ Poll
    \/ Dispatch

CardsSpec == CardsInit /\ [][CardsNext]_vars

\* --------------------------------------------------------- auto-select
\* C35: when ExtractionComplete is processed, a technique is selected if
\* and only if it is among the first min(10, n) techniques of the list
\* ordered by descending relevance score, whatever was toggled before.
SortedByScore(techniques) ==
    \A i, j \in 1..Len(techniques) :
        i < j => techniques[i].relevance_score >= techniques[j].relevance_score

TopSelected(techniques) ==
    /\ SortedByScore(techniques)
    /\ \A i \in 1..Len(techniques) :
          techniques[i].selected <=> i <= Min(10, Len(techniques))

Processes(r, type) == \E k \in 1..Len(r.log) : r.log[k].type = type

CompleteSelectsTop ==
    AboutToDispatch =>
        \A r \in {handle_action(Ctx(app), Head(queue), 1)} :
            Processes(r, "ExtractionComplete")
                => TopSelected(r.app.technique_cards.techniques)

\* The dispatch that completes an extraction of more than ten cards, some of
\* them toggled by the user, with two different scores in the list.
CompleteSelectsTopWitness ==
    /\ AboutToDispatch
    /\ Head(queue).type = "TechniqueExtracted"
    /\ \E i \in 1..Len(app.technique_cards.techniques) :
          app.technique_cards.techniques[i].selected
    /\ \A r \in {handle_action(Ctx(app), Head(queue), 1)} :
          /\ Processes(r, "ExtractionComplete")
          /\ Len(r.app.technique_cards.techniques) > 10
          /\ \E i, j \in 1..Len(r.app.technique_cards.techniques) :
                r.app.technique_cards.techniques[i].relevance_score
                    # r.app.technique_cards.techniques[j].relevance_score

\* ----------------------------------------------------------- mode flag
\* C36: after the dispatch of every queued action other than Quit, the
\* shared input-mode flag equals the mode derived from the state: Editing if
\* and only if neither the help overlay nor the merge dialog is visible, the
\* active phase is ProjectIntake, and the intake component has no profile
\* and no analysis in progress.
DerivedEditing(a) ==
    /\ ~a.help.visible
    /\ ~a.merge_dialog.visible
    /\ a.current_phase = "ProjectIntake"
    /\ ~a.project_intake.profile
    /\ ~a.project_intake.analyzing

ModeFlagSynced ==
    /\ main_pc \in {"poll", "recv"} =>
          (app.input_mode_flag = "Editing" <=> DerivedEditing(app))
    /\ (AboutToDispatch /\ Head(queue).type # "Quit") =>
          \A r \in {handle_action(Ctx(app), Head(queue), 1)} :
              r.app.input_mode_flag = "Editing" <=> DerivedEditing(r.app)

\* The intake form is editable again after a failed analysis, and the flag
\* is Normal after the dispatch of OpenMergeDialog only because the merge
\* dialog is now visible.
ModeFlagSyncedWitness ==
    /\ main_pc = "poll"
    /\ app.merge_dialog.visible
    /\ app.current_phase = "ProjectIntake"
    /\ ProjectIntake_wants_input(app.project_intake)
    /\ app.input_mode_flag = "Normal"

\* ------------------------------------------------------ overlay input
\* C37: while the merge dialog or the help overlay is visible, the actions
\* the overlay consumes (ScrollUp / ScrollDown, Confirm, NextPhase /
\* PrevPhase) leave the state of the active phase's component unchanged.
PhaseComponents(a) ==
    <<a.project_intake, a.research_explorer, a.technique_cards,
      a.variant_builder, a.benchmark_dashboard>>

OverlayActions == {"ScrollUp", "ScrollDown", "Confirm", "NextPhase", "PrevPhase"}

OverlayShieldsPhase ==
    (/\ AboutToDispatch
     /\ app.merge_dialog.visible \/ app.help.visible
     /\ Head(queue).type \in OverlayActions) =>
        \A r \in {handle_action(Ctx(app), Head(queue), 1)} :
            PhaseComponents(r.app) = PhaseComponents(app)

\* ------------------------------------------------------------- TickSpec
\* The user submits the form and presses ? while the interval timer of the
\* event handler fires up to MaxTicks times, at any moments.
TickScript == <<"CtrlEnter", "?">>

TickInit == InitWith(TickScript, MaxTicks)

TickNext ==
    \/ HandlerTick
    \/ HandlerKey
    \/ Poll
    \/ Dispatch
    \/ StartupSpawn
    \/ StartupHealthy
    \/ StartupFailed
    \/ AnalyzeDone
    \/ SearchStart
    \/ SearchResponse

TickSpec == TickInit /\ [][TickNext]_vars

\* C38: processing a Tick changes no application state other than the
\* spinner counters of a component whose job is in progress: the active
\* phase, the in-progress flags, all collections, the status message and the
\* visibility of the help and merge overlays are unchanged.
ExceptSpinners(a) ==
    [a EXCEPT !.research_explorer.spinner_tick = 0,
              !.technique_cards.spinner_tick = 0,
              !.input_mode_flag = "Normal"]

TickOnlySpins ==
    (AboutToDispatch /\ Head(queue).type = "Tick") =>
        \A r \in {handle_action(Ctx(app), Head(queue), 1)} :
            ExceptSpinners(r.app) = ExceptSpinners(app)

\* ------------------------------------------------------------- PickSpec
\* The reducer in VariantGeneration with up to MaxVariants ready variants in
\* the variant builder.  The dialog is given the builder's list by
\* set_variants, and the user presses up to MaxPicks keys, each when the
\* reducer has processed everything before it.
PickInit ==
    /\ \E n \in 0..MaxVariants :
          app = sync_input_mode(
                  [App_new(1, <<"c">>)
                     EXCEPT !.current_phase = "VariantGeneration",
                            !.status_bar.current_phase = "VariantGeneration",
                            !.sidecar_manager = TRUE,
                            !.sidecar_client = TRUE,
                            !.user_description = <<"c">>,
                            !.project_intake.profile = TRUE,
                            !.variant_builder.variants =
                                [i \in 1..n |-> [id |-> i, status |-> "Ready",
                                                 technique |-> 1,
                                                 benchmark_results |-> FALSE]]])
    /\ queue = <<>>
    /\ rx_alive = TRUE
    /\ main_pc = "poll"
    /\ tasks = <<>>
    /\ handler = [alive |-> TRUE, script |-> <<>>, events |-> 0, ticks |-> 0]
    /\ startup = [pc |-> "finished", chan |-> "taken"]
    /\ hist = HistInit
    /\ sup = SidecarManager_new
    /\ lineage = NoLineage

\* merge_dialog.set_variants(&variant_builder.variants).
PickSync ==
    /\ main_pc = "poll" /\ queue = <<>>
    /\ app.merge_dialog.available_variants = <<>>
    /\ app.variant_builder.variants # <<>>
    /\ app' = [app EXCEPT !.merge_dialog = set_variants(@, app.variant_builder.variants)]
    /\ UNCHANGED <<queue, rx_alive, main_pc, tasks, handler, startup, hist, sup, lineage>>

PickFeed ==
    /\ main_pc = "poll" /\ queue = <<>>
    /\ handler.events < MaxPicks
    /\ \E key \in {"m", "Esc", "Up", "Down", "Left", "Right", "Enter"} :
          queue' = Deliver(queue, <<map_key(app.input_mode_flag, key)>>)
    /\ handler' = [handler EXCEPT !.events = @ + 1]
    /\ UNCHANGED <<app, rx_alive, main_pc, tasks, startup, hist, sup, lineage>>

PickNext ==
    \/ PickSync
    \/ PickFeed
    \/ Poll
    \/ Dispatch

PickSpec == PickInit /\ [][PickNext]_vars

\* C39: in every reachable state of the merge dialog, Confirm emits
\* StartMerge only when at least two variants are available and the two
\* selected indices are distinct and both within the range of the available
\* list; Confirm never indexes outside that list.
ConfirmInRange ==
    app.merge_dialog.visible =>
        \A md \in {app.merge_dialog},
           r \in {MergeDialog_handle_action(app.merge_dialog, Act("Confirm", 0))} :
            /\ r.result.type # "Panic"
            /\ r.result.type = "StartMerge" =>
                  /\ Len(md.available_variants) >= 2
                  /\ md.variant_a_idx # md.variant_b_idx
                  /\ md.variant_a_idx < Len(md.available_variants)
                  /\ md.variant_b_idx < Len(md.available_variants)
                  /\ r.result.arg.variant_a_id # r.result.arg.variant_b_id

\* Confirm has emitted StartMerge for the first and the third variant, the
\* second index having been moved by the user.
ConfirmInRangeWitness ==
    /\ app.merge_dialog.merging
    /\ app.merge_dialog.variant_a_idx = 0
    /\ app.merge_dialog.variant_b_idx = 2
    /\ Len(app.merge_dialog.available_variants) = MaxVariants

\* ----------------------------------------------------------- status bar
\* C40: after every dispatched action, the phase shown by the status bar
\* equals the active phase of the application, for every way the active
\* phase can change (GoToPhase, NextPhase, PrevPhase, auto-advance after
\* project analysis).
StatusBarShowsPhase ==
    /\ app.status_bar.current_phase = app.current_phase
    /\ AboutToDispatch =>
          \A r \in {handle_action(Ctx(app), Head(queue), 1)} :
              r.app.status_bar.current_phase = r.app.current_phase

\* The dispatch of ProjectAnalyzed that auto-advances from ProjectIntake to
\* ResearchDiscovery.
StatusBarShowsPhaseWitness ==
    /\ AboutToDispatch
    /\ Head(queue).type = "ProjectAnalyzed"
    /\ app.current_phase = "ProjectIntake"
    /\ \A r \in {handle_action(Ctx(app), Head(queue), 1)} :
          r.app.current_phase = "ResearchDiscovery"

=============================================================================
